---------------------------- MODULE Spec2Model ----------------------------
(***************************************************************************)
(* A model of the ERC1155 token connector: the token-id codec              *)
(* (tokens.util.ts), the event listener (TokenListener) and the            *)
(* subscription manager (TokensService).                                   *)
(*                                                                         *)
(* Strings are sequences of symbols.  A symbol is a one-character string,  *)
(* or a word that holds no delimiter and is never looked into (an event    *)
(* name, an address, a topic).  Unbounded integers (BigInt) are sequences  *)
(* of 16-bit limbs, least significant first, without leading zero limbs.   *)
(***************************************************************************)
EXTENDS Integers, Sequences, FiniteSets, Bags, TLC

VARIABLES
    (* token-id codec: the arguments and results of packTokenId/unpackTokenId *)
    pool_id, token_index, id, unpacked, cpc,
    (* identity formatting: two log entries, each with the position of a
       batch member or none, and the identities made from them *)
    entries, identities,
    (* outbound operations: the request the controller passed, the calls made
       to the chain-invocation client, each with its answer, and what the
       operation returned or threw *)
    dto, invoked, reply,
    (* the token contract ERC1155MixedFungible: its storage, the bag of the
       TransferSingle events it has emitted, and the last transaction sent
       to it *)
    nonce, creators, maxIndex, balances, nfTokenURIs, emitted, tx,
    (* subscription-name codec: the fields given to packSubscriptionName, the
       name, and what unpackSubscriptionName made of it *)
    nameFields, packedName, unpackedName,
    (* TokenListener: the cached URI pattern; the last delivery (subscription
       name and event), what the chain and the transport made it from, the
       arguments onEvent passed to process, and the URI queries it made *)
    uriPattern, subName, event, origin, processed, queries,
    (* the event-stream transport: its streams, in the order of its listing,
       and the bag of its subscriptions *)
    streams, subscriptions,
    (* TokensService: the cached stream handle of each topic; the invocations
       of its operations, each with its position and locals; and the number
       of transport requests that have failed so far *)
    stream, calls, failures

nameVars == <<nameFields, packedName, unpackedName>>
contractVars == <<nonce, creators, maxIndex, balances, nfTokenURIs, emitted, tx>>
codecVars == <<pool_id, token_index, id, unpacked, cpc, entries, identities,
              dto, invoked, reply, contractVars, nameVars>>
listenerVars == <<uriPattern, subName, event, origin, processed, queries>>
serviceVars == <<streams, subscriptions, stream, calls, failures>>
vars == <<codecVars, listenerVars, serviceVars>>

-----------------------------------------------------------------------------
(* BigInt arithmetic on limb sequences *)

Limb == 2^16

Zero == <<>>
One == <<1>>

RECURSIVE Norm(_)
Norm(x) ==
    IF x = <<>> THEN <<>>
    ELSE IF x[Len(x)] = 0 THEN Norm(SubSeq(x, 1, Len(x) - 1))
    ELSE x

(* x * m + c for a small multiplier m (at most 2^15) and a carry c < m *)
RECURSIVE MulAdd(_, _, _)
MulAdd(x, m, c) ==
    IF x = <<>> THEN (IF c = 0 THEN <<>> ELSE <<c>>)
    ELSE LET v == Head(x) * m + c
         IN  <<v % Limb>> \o MulAdd(Tail(x), m, v \div Limb)

(* x divided by a small divisor d, remainder r carried in from above *)
RECURSIVE DivRem(_, _, _)
DivRem(x, d, r) ==
    IF x = <<>> THEN [q |-> <<>>, r |-> r]
    ELSE LET v == r * Limb + x[Len(x)]
             rest == DivRem(SubSeq(x, 1, Len(x) - 1), d, v % d)
         IN  [q |-> rest.q \o <<v \div d>>, r |-> rest.r]

RECURSIVE AddC(_, _, _)
AddC(x, y, c) ==
    IF x = <<>> /\ y = <<>> THEN (IF c = 0 THEN <<>> ELSE <<c>>)
    ELSE LET a == IF x = <<>> THEN 0 ELSE Head(x)
             b == IF y = <<>> THEN 0 ELSE Head(y)
             v == a + b + c
         IN  <<v % Limb>> \o AddC(IF x = <<>> THEN <<>> ELSE Tail(x),
                                  IF y = <<>> THEN <<>> ELSE Tail(y), v \div Limb)

Add(x, y) == Norm(AddC(x, y, 0))

RECURSIVE OrInt(_, _)
OrInt(a, b) ==
    IF a = 0 THEN b
    ELSE IF b = 0 THEN a
    ELSE (IF a % 2 = 1 \/ b % 2 = 1 THEN 1 ELSE 0) + 2 * OrInt(a \div 2, b \div 2)

(* x | y *)
Or(x, y) ==
    LET n == IF Len(x) > Len(y) THEN Len(x) ELSE Len(y)
    IN  Norm([i \in 1..n |-> OrInt(IF i <= Len(x) THEN x[i] ELSE 0,
                                   IF i <= Len(y) THEN y[i] ELSE 0)])

(* x << n *)
ShiftLeft(x, n) ==
    IF x = <<>> THEN <<>>
    ELSE [i \in 1..(n \div 16) |-> 0] \o MulAdd(x, 2^(n % 16), 0)

(* x >> n *)
ShiftRight(x, n) ==
    LET q == n \div 16
        r == n % 16
        y == IF q >= Len(x) THEN <<>> ELSE SubSeq(x, q + 1, Len(x))
    IN  Norm([i \in 1..Len(y) |->
                (y[i] \div 2^r)
                + (IF i < Len(y) THEN (y[i + 1] % 2^r) * 2^(16 - r) ELSE 0)])

(* BigInt.asUintN(n, x): the low n bits of x *)
AsUintN(n, x) ==
    LET q == n \div 16
        r == n % 16
    IN  IF Len(x) <= q THEN x
        ELSE Norm(SubSeq(x, 1, q) \o <<x[q + 1] % 2^r>>)

-----------------------------------------------------------------------------
(* Decimal numerals: BigInt(string) and BigInt.prototype.toString() *)

DigitChars == <<"0", "1", "2", "3", "4", "5", "6", "7", "8", "9">>

IsDigit(c) == \E i \in 1..10 : DigitChars[i] = c

DigitVal(c) == (CHOOSE i \in 1..10 : DigitChars[i] = c) - 1

IsNumeral(s) == \A i \in 1..Len(s) : IsDigit(s[i])

(* the value of a short numeral (at most four digits) as a machine integer *)
RECURSIVE ShortVal(_)
ShortVal(s) ==
    IF s = <<>> THEN 0
    ELSE 10 * ShortVal(SubSeq(s, 1, Len(s) - 1)) + DigitVal(s[Len(s)])

(* BigInt(s) for a string of decimal digits, read from the left, up to four
   digits at a time, into the accumulator acc; BigInt('') is 0n *)
RECURSIVE ParseFrom(_, _, _)
ParseFrom(s, i, acc) ==
    IF i > Len(s) THEN acc
    ELSE LET k == IF Len(s) - i + 1 >= 4 THEN 4 ELSE Len(s) - i + 1
             a == MulAdd(acc, 10^k, ShortVal(SubSeq(s, i, i + k - 1)))
         IN  IF Len(a) >= 0 THEN ParseFrom(s, i + k, a) ELSE a

ParseDec(s) == ParseFrom(s, 1, <<>>)

(* the four decimal digits of n < 10000 *)
FourDigits(n) ==
    <<DigitChars[(n \div 1000) + 1], DigitChars[((n \div 100) % 10) + 1],
      DigitChars[((n \div 10) % 10) + 1], DigitChars[(n % 10) + 1]>>

RECURSIVE StripZeros(_)
StripZeros(s) ==
    IF Len(s) > 1 /\ Head(s) = "0" THEN StripZeros(Tail(s)) ELSE s

(* the digits of x, four at a time from the right; leading zeros included *)
RECURSIVE ToDecDigits(_)
ToDecDigits(x) ==
    IF x = <<>> THEN <<>>
    ELSE LET d == DivRem(x, 10000, 0)
         IN  ToDecDigits(Norm(d.q)) \o FourDigits(d.r)

ToDec(x) == IF x = <<>> THEN <<"0">> ELSE StripZeros(ToDecDigits(x))

-----------------------------------------------------------------------------
(* tokens.util.ts *)

substr1(s) == IF Len(s) <= 1 THEN <<>> ELSE SubSeq(s, 2, Len(s))

isFungible(p) == Len(p) >= 1 /\ p[1] = "F"

(* an argument left out of a call, or a field that is not there *)
Undefined == <<"undefined">>

(* no outbound operation has been requested *)
RequestsIdle == dto = [op |-> "none"] /\ invoked = <<>> /\ reply = Undefined

(* a 256-bit word seen through the split bit layout of the contract: bit 255,
   bits 254-128 and bits 127-0 *)
Word(nf, type, index) == [nf |-> nf, type |-> type, index |-> index]

(* no subscription name has been packed or unpacked *)
NoFields ==
    [scope |-> Undefined, poolLocator |-> Undefined, event |-> Undefined,
     poolData |-> Undefined]

NamesIdle == nameFields = NoFields /\ packedName = Undefined /\ unpackedName = NoFields

(* the contract as its constructor leaves it: every mapping at its default *)
Deployed ==
    /\ nonce = 0
    /\ creators = <<>> /\ maxIndex = <<>> /\ balances = <<>> /\ nfTokenURIs = <<>>
    /\ emitted = EmptyBag
    /\ tx = [fn |-> "constructor", sender |-> "0xD", type_id |-> Word(FALSE, 0, 0),
             reverted |-> FALSE]

(* a plausible slip: the fungibility flag inverted *)
packTokenId_flagInverted(p, idx) ==
    LET ti == IF idx = Undefined THEN <<"0">> ELSE idx
    IN  ToDec(Or(Or(ShiftLeft(IF isFungible(p) THEN One ELSE Zero, 255),
                    ShiftLeft(ParseDec(substr1(p)), 128)),
                 ParseDec(ti)))

packTokenId(p, idx) ==
    LET ti == IF idx = Undefined THEN <<"0">> ELSE idx
    IN  ToDec(Or(Or(ShiftLeft(IF isFungible(p) THEN Zero ELSE One, 255),
                    ShiftLeft(ParseDec(substr1(p)), 128)),
                 ParseDec(ti)))

(* a plausible slip: the flag bit is not masked off before the pool sequence
   is read *)
unpackTokenId_noMask(tid) ==
    LET val == ParseDec(tid)
        isF == ShiftRight(val, 255) = Zero
    IN  [isFungible |-> isF,
         poolId |-> <<IF isF THEN "F" ELSE "N">> \o ToDec(ShiftRight(val, 128)),
         tokenIndex |-> ToDec(AsUintN(128, val))]

unpackTokenId(tid) ==
    LET val == ParseDec(tid)
        isF == ShiftRight(val, 255) = Zero
    IN  [isFungible |-> isF,
         poolId |-> <<IF isF THEN "F" ELSE "N">> \o ToDec(ShiftRight(AsUintN(255, val), 128)),
         tokenIndex |-> ToDec(AsUintN(128, val))]

-----------------------------------------------------------------------------
(* String helpers: split, join, padStart, replace *)

RECURSIVE Split(_, _)
(* s.split(d): the pieces of s between the occurrences of the symbol d *)
Split(s, d) ==
    IF \A i \in 1..Len(s) : s[i] # d THEN <<s>>
    ELSE LET k == CHOOSE i \in 1..Len(s) : s[i] = d /\ \A j \in 1..(i - 1) : s[j] # d
         IN  <<SubSeq(s, 1, k - 1)>> \o Split(SubSeq(s, k + 1, Len(s)), d)

RECURSIVE Join(_, _)
(* parts.join(d) *)
Join(parts, d) ==
    IF parts = <<>> THEN <<>>
    ELSE IF Len(parts) = 1 THEN parts[1]
    ELSE parts[1] \o <<d>> \o Join(Tail(parts), d)

(* s.padStart(n, c) *)
PadStart(s, n, c) ==
    IF Len(s) >= n THEN s ELSE [i \in 1..(n - Len(s)) |-> c] \o s

(* s.replace(what, by): the first occurrence of the symbol what replaced *)
Replace(s, what, by) ==
    IF \A i \in 1..Len(s) : s[i] # what THEN s
    ELSE LET k == CHOOSE i \in 1..Len(s) : s[i] = what /\ \A j \in 1..(i - 1) : s[j] # what
         IN  SubSeq(s, 1, k - 1) \o by \o SubSeq(s, k + 1, Len(s))

(* a JavaScript number n >= 0 as a BigInt, and n.toString(10) *)
OfNat(n) == IF n = 0 THEN Zero ELSE <<n>>
NatToString(n) == ToDec(OfNat(n))

-----------------------------------------------------------------------------
(* Pool locators and subscription names (the newer tokens.util.ts) *)

LocatorDelim == "&"
NameDelim == ":"

packPoolLocator(poolId, blockNumber) ==
    IF blockNumber = Undefined THEN poolId
    ELSE poolId \o <<LocatorDelim>> \o blockNumber

unpackPoolLocator(data) ==
    LET parts == Split(data, LocatorDelim)
    IN  IF Len(parts) = 2
        THEN [poolId |-> parts[1], blockNumber |-> parts[2]]
        ELSE [poolId |-> data, blockNumber |-> Undefined]

packSubscriptionName(scope, poolLocator, eventName, poolData) ==
    Join(<<scope, poolLocator, eventName>>
         \o (IF poolData = Undefined THEN <<>> ELSE <<poolData>>), NameDelim)

(* a plausible slip: the optional fourth part not read *)
unpackSubscriptionName_dataDropped(data) ==
    LET parts == Split(data, NameDelim)
    IN  IF Len(parts) \in {3, 4}
        THEN [scope |-> parts[1], poolLocator |-> parts[2], event |-> parts[3],
              poolData |-> Undefined]
        ELSE [scope |-> Undefined, poolLocator |-> Undefined, event |-> Undefined,
              poolData |-> Undefined]

(* a plausible slip: any name of three parts or more is read *)
unpackSubscriptionName_lenient(data) ==
    LET parts == Split(data, NameDelim)
    IN  IF Len(parts) >= 3
        THEN [scope |-> parts[1], poolLocator |-> parts[2], event |-> parts[3],
              poolData |-> IF Len(parts) >= 4 THEN parts[4] ELSE Undefined]
        ELSE [scope |-> Undefined, poolLocator |-> Undefined, event |-> Undefined,
              poolData |-> Undefined]

unpackSubscriptionName(data) ==
    LET parts == Split(data, NameDelim)
    IN  IF Len(parts) = 4
        THEN [scope |-> parts[1], poolLocator |-> parts[2], event |-> parts[3],
              poolData |-> parts[4]]
        ELSE IF Len(parts) = 3
        THEN [scope |-> parts[1], poolLocator |-> parts[2], event |-> parts[3],
              poolData |-> Undefined]
        ELSE [scope |-> Undefined, poolLocator |-> Undefined, event |-> Undefined,
              poolData |-> Undefined]

HexChars == <<"0", "1", "2", "3", "4", "5", "6", "7", "8", "9",
              "a", "b", "c", "d", "e", "f">>

(* the four hex digits of a limb *)
FourHex(n) ==
    <<HexChars[(n \div 4096) + 1], HexChars[((n \div 256) % 16) + 1],
      HexChars[((n \div 16) % 16) + 1], HexChars[(n % 16) + 1]>>

RECURSIVE ToHexFrom(_, _)
(* x.toString(16): the hex digits of the limbs from limb i down, no leading zeros *)
ToHexFrom(x, i) ==
    IF i = 0 THEN <<>> ELSE FourHex(x[i]) \o ToHexFrom(x, i - 1)

ToHex(x) == IF x = <<>> THEN <<"0">> ELSE StripZeros(ToHexFrom(x, Len(x)))

(* the token id as 64 hex digits, the form the {id} of a URI template takes *)
encodeHexIDForURI(tid) == PadStart(ToHex(ParseDec(tid)), 64, "0")

-----------------------------------------------------------------------------
(* TokenListener *)

ZERO_ADDRESS == "0x0000000000000000000000000000000000000000"
BASE_SUBSCRIPTION_NAME == <<"b", "a", "s", "e">>

tokenCreateEvent == <<"TokenPoolCreation">>
transferSingleEvent == <<"TransferSingle">>
transferBatchEvent == <<"TransferBatch">>
approvalForAllEvent == <<"ApprovalForAll">>

tokenCreateEventSignatureOld == "TokenCreate(address,uint256,bytes)"
tokenCreateEventSignature == "TokenPoolCreation(address,uint256,bytes)"
transferSingleEventSignature == "TransferSingle(address,address,address,uint256,uint256)"
transferBatchEventSignature == "TransferBatch(address,address,address,uint256[],uint256[])"
approvalForAllEventSignature == "ApprovalForAll(address,address,bool)"

(* a plausible slip: the transaction index is joined as it is *)
formatBlockchainEventId_txNotPadded(ev) ==
    LET blockNumber == IF ev.blockNumber = Undefined THEN <<"0">> ELSE ev.blockNumber
        txIndex == ToDec(ParseDec(ev.transactionIndex))
        logIndex == IF ev.logIndex = Undefined THEN <<"0">> ELSE ev.logIndex
    IN  Join(<<PadStart(blockNumber, 12, "0"), txIndex,
               PadStart(logIndex, 6, "0")>>, "/")

formatBlockchainEventId(ev) ==
    LET blockNumber == IF ev.blockNumber = Undefined THEN <<"0">> ELSE ev.blockNumber
        txIndex == ToDec(ParseDec(ev.transactionIndex))
        logIndex == IF ev.logIndex = Undefined THEN <<"0">> ELSE ev.logIndex
    IN  Join(<<PadStart(blockNumber, 12, "0"), PadStart(txIndex, 6, "0"),
               PadStart(logIndex, 6, "0")>>, "/")

(* a plausible slip: the answer of the query is used but not kept *)
getTokenUri_notCached(tid, pattern, q) ==
    IF pattern = Undefined
    THEN IF q.ok
         THEN [uri |-> Replace(q.output, "{id}", encodeHexIDForURI(tid)),
               uriPattern |-> pattern, queried |-> TRUE]
         ELSE [uri |-> <<>>, uriPattern |-> pattern, queried |-> TRUE]
    ELSE [uri |-> Replace(pattern, "{id}", encodeHexIDForURI(tid)),
          uriPattern |-> pattern, queried |-> FALSE]

(* a plausible slip: the empty string of a failed query is kept as the pattern *)
getTokenUri_failureCached(tid, pattern, q) ==
    IF pattern = Undefined
    THEN IF q.ok
         THEN [uri |-> Replace(q.output, "{id}", encodeHexIDForURI(tid)),
               uriPattern |-> q.output, queried |-> TRUE]
         ELSE [uri |-> <<>>, uriPattern |-> <<>>, queried |-> TRUE]
    ELSE [uri |-> Replace(pattern, "{id}", encodeHexIDForURI(tid)),
          uriPattern |-> pattern, queried |-> FALSE]

(* getTokenUri, given the cached pattern and how the query would end:
   the uri returned, the pattern cached afterwards, whether the query was made *)
getTokenUri(tid, pattern, q) ==
    IF pattern = Undefined
    THEN IF q.ok
         THEN [uri |-> Replace(q.output, "{id}", encodeHexIDForURI(tid)),
               uriPattern |-> q.output, queried |-> TRUE]
         ELSE [uri |-> <<>>, uriPattern |-> pattern, queried |-> TRUE]
    ELSE [uri |-> Replace(pattern, "{id}", encodeHexIDForURI(tid)),
          uriPattern |-> pattern, queried |-> FALSE]

(* the fields of a notification that a given kind does not carry *)
NoAddress == "undefined"

(* a plausible slip: the pool of the token id is not compared with the pool
   of the subscription *)
TransferRejected_noPoolGuard(unpackedSub, unpackedId, output) ==
    \/ unpackedSub.poolLocator = Undefined
    \/ (output.from = ZERO_ADDRESS /\ output.to = ZERO_ADDRESS)

(* the early returns of transformTransferSingleEvent *)
TransferRejected(unpackedSub, unpackedId, output) ==
    \/ unpackedSub.poolLocator = Undefined
    \/ unpackPoolLocator(unpackedSub.poolLocator).poolId # unpackedId.poolId
    \/ (output.from = ZERO_ADDRESS /\ output.to = ZERO_ADDRESS)

(* a plausible slip: the sub-index is not taken from the member's position *)
TransferId_sameIndex(eventId, eventIndex) ==
    IF eventIndex = <<>> THEN eventId
    ELSE eventId \o <<"/">> \o PadStart(NatToString(1), 6, "0")

(* the id of the notification: eventIndex is <<>> when the argument is left
   out and <<i>> otherwise *)
TransferId(eventId, eventIndex) ==
    IF eventIndex = <<>> THEN eventId
    ELSE eventId \o <<"/">> \o PadStart(NatToString(eventIndex[1]), 6, "0")

(* a plausible slip: the tests on the sender and on the recipient exchanged *)
ClassifyTransfer_burnOnFrom(output, commonData) ==
    IF output.to = ZERO_ADDRESS
    THEN [event |-> "token-mint", data |-> commonData,
          from |-> NoAddress, to |-> output.to]
    ELSE IF output.from = ZERO_ADDRESS
    THEN [event |-> "token-burn", data |-> commonData,
          from |-> output.from, to |-> NoAddress]
    ELSE [event |-> "token-transfer", data |-> commonData,
          from |-> output.from, to |-> output.to]

(* the notification kind by the zero-address convention *)
ClassifyTransfer(output, commonData) ==
    IF output.from = ZERO_ADDRESS
    THEN [event |-> "token-mint", data |-> commonData,
          from |-> NoAddress, to |-> output.to]
    ELSE IF output.to = ZERO_ADDRESS
    THEN [event |-> "token-burn", data |-> commonData,
          from |-> output.from, to |-> NoAddress]
    ELSE [event |-> "token-transfer", data |-> commonData,
          from |-> output.from, to |-> output.to]

(* a plausible slip: a member whose URI query failed is left out *)
transformTransferSingleEvent_failedLeftOut(sub, ev, eventIndex, pattern, q) ==
    LET output == ev.data
        unpackedId == unpackTokenId(output.id)
        unpackedSub == unpackSubscriptionName(sub)
    IN  IF TransferRejected(unpackedSub, unpackedId, output)
        THEN [msg |-> <<>>, uriPattern |-> pattern, queried |-> FALSE]
        ELSE
        LET got == IF unpackedId.isFungible
                   THEN [uri |-> Undefined, uriPattern |-> pattern, queried |-> FALSE]
                   ELSE getTokenUri(output.id, pattern, q)
            eventId == formatBlockchainEventId(ev)
            commonData == [id |-> TransferId(eventId, eventIndex),
                           poolLocator |-> unpackedSub.poolLocator,
                           tokenIndex |-> unpackedId.tokenIndex,
                           uri |-> got.uri,
                           amount |-> output.value,
                           signer |-> output.operator,
                           blockchainId |-> eventId]
        IN  [msg |-> IF got.uri = <<>> THEN <<>> ELSE <<ClassifyTransfer(output, commonData)>>,
             uriPattern |-> got.uriPattern, queried |-> got.queried]

(* transformTransferSingleEvent: msg is <<>> when the result is undefined *)
transformTransferSingleEvent(sub, ev, eventIndex, pattern, q) ==
    LET output == ev.data
        unpackedId == unpackTokenId(output.id)
        unpackedSub == unpackSubscriptionName(sub)
    IN  IF TransferRejected(unpackedSub, unpackedId, output)
        THEN [msg |-> <<>>, uriPattern |-> pattern, queried |-> FALSE]
        ELSE
        LET got == IF unpackedId.isFungible
                   THEN [uri |-> Undefined, uriPattern |-> pattern, queried |-> FALSE]
                   ELSE getTokenUri(output.id, pattern, q)
            eventId == formatBlockchainEventId(ev)
            commonData == [id |-> TransferId(eventId, eventIndex),
                           poolLocator |-> unpackedSub.poolLocator,
                           tokenIndex |-> unpackedId.tokenIndex,
                           uri |-> got.uri,
                           amount |-> output.value,
                           signer |-> output.operator,
                           blockchainId |-> eventId]
        IN  [msg |-> <<ClassifyTransfer(output, commonData)>>,
             uriPattern |-> got.uriPattern, queried |-> got.queried]

(* how the n-th URI query of a delivery (n = 0, 1, ...) ends when the first
   `fails` of them fail: the contract answers with the template *)
QueryOutcome(n, fails, template) == [ok |-> n >= fails, output |-> template]

(* a plausible slip: each message is put in front of the ones before it *)
RECURSIVE transformTransferBatchFrom_unshift(_, _, _, _, _, _, _)
transformTransferBatchFrom_unshift(sub, ev, i, pattern, made, fails, template) ==
    IF i > Len(ev.data.ids)
    THEN [messages |-> <<>>, uriPattern |-> pattern, queries |-> made]
    ELSE LET single == [ev EXCEPT !.data =
                            [from |-> ev.data.from,
                             to |-> ev.data.to,
                             operator |-> ev.data.operator,
                             id |-> ev.data.ids[i],
                             value |-> ev.data.values[i]]]
             one == transformTransferSingleEvent(sub, single, <<i - 1>>, pattern,
                                                 QueryOutcome(made, fails, template))
             rest == transformTransferBatchFrom_unshift(sub, ev, i + 1, one.uriPattern,
                                                made + (IF one.queried THEN 1 ELSE 0),
                                                fails, template)
         IN  [messages |-> rest.messages \o one.msg,
              uriPattern |-> rest.uriPattern,
              queries |-> rest.queries]

(* transformTransferBatchEvent from member i on, `made` URI queries made so far *)
RECURSIVE transformTransferBatchFrom(_, _, _, _, _, _, _)
transformTransferBatchFrom(sub, ev, i, pattern, made, fails, template) ==
    IF i > Len(ev.data.ids)
    THEN [messages |-> <<>>, uriPattern |-> pattern, queries |-> made]
    ELSE LET single == [ev EXCEPT !.data =
                            [from |-> ev.data.from,
                             to |-> ev.data.to,
                             operator |-> ev.data.operator,
                             id |-> ev.data.ids[i],
                             value |-> ev.data.values[i]]]
             one == transformTransferSingleEvent(sub, single, <<i - 1>>, pattern,
                                                 QueryOutcome(made, fails, template))
             rest == transformTransferBatchFrom(sub, ev, i + 1, one.uriPattern,
                                                made + (IF one.queried THEN 1 ELSE 0),
                                                fails, template)
         IN  [messages |-> one.msg \o rest.messages,
              uriPattern |-> rest.uriPattern,
              queries |-> rest.queries]

transformTransferBatchEvent(sub, ev, pattern, fails, template) ==
    transformTransferBatchFrom(sub, ev, 1, pattern, 0, fails, template)

(* a plausible slip: the base subscription is held to the pool test too *)
PoolCreationRejected_baseNotExempt(unpackedSub, unpackedId) ==
    \/ unpackedSub.poolLocator = Undefined
    \/ unpackPoolLocator(unpackedSub.poolLocator).poolId # unpackedId.poolId

(* the early returns of transformTokenPoolCreationEvent *)
PoolCreationRejected(unpackedSub, unpackedId) ==
    \/ unpackedSub.poolLocator = Undefined
    \/ /\ unpackPoolLocator(unpackedSub.poolLocator).poolId # BASE_SUBSCRIPTION_NAME
       /\ unpackPoolLocator(unpackedSub.poolLocator).poolId # unpackedId.poolId

(* transformTokenPoolCreationEvent: <<>> when the result is undefined *)
transformTokenPoolCreationEvent(sub, ev) ==
    LET output == ev.data
        unpackedId == unpackTokenId(output.type_id)
        unpackedSub == unpackSubscriptionName(sub)
    IN  IF PoolCreationRejected(unpackedSub, unpackedId) THEN <<>>
        ELSE <<[event |-> "token-pool",
                poolLocator |-> packPoolLocator(unpackedId.poolId, ev.blockNumber),
                type |-> IF unpackedId.isFungible THEN "fungible" ELSE "nonfungible",
                signer |-> output.operator,
                typeId |-> <<"0", "x">> \o encodeHexIDForURI(output.type_id),
                blockchainId |-> formatBlockchainEventId(ev)]>>

(* a plausible slip: the pool id is left out of the id *)
ApprovalId_noPool(eventId, poolLocator) == eventId

(* the id of an approval notification *)
ApprovalId(eventId, poolLocator) == eventId \o <<"/">> \o poolLocator.poolId

(* a plausible slip: the name of the subscription is not tested *)
transformApprovalForAllEvent_noNameTest(sub, ev) ==
    LET output == ev.data
        unpackedSub == unpackSubscriptionName(sub)
        poolLocator == unpackPoolLocator(unpackedSub.poolLocator)
        eventId == formatBlockchainEventId(ev)
    IN  <<[event |-> "token-approval",
           id |-> ApprovalId(eventId, poolLocator),
           subject |-> <<output.account, ":", output.operator>>,
           poolLocator |-> unpackedSub.poolLocator,
           operator |-> output.operator,
           approved |-> output.approved,
           signer |-> output.account,
           blockchainId |-> eventId]>>

(* transformApprovalForAllEvent: <<>> when the result is undefined *)
transformApprovalForAllEvent(sub, ev) ==
    LET output == ev.data
        unpackedSub == unpackSubscriptionName(sub)
    IN  IF unpackedSub.poolLocator = Undefined THEN <<>>
        ELSE LET poolLocator == unpackPoolLocator(unpackedSub.poolLocator)
                 eventId == formatBlockchainEventId(ev)
             IN  <<[event |-> "token-approval",
                    id |-> ApprovalId(eventId, poolLocator),
                    subject |-> <<output.account, ":", output.operator>>,
                    poolLocator |-> unpackedSub.poolLocator,
                    operator |-> output.operator,
                    approved |-> output.approved,
                    signer |-> output.account,
                    blockchainId |-> eventId]>>

(* a plausible slip: the switch without its default, an unlisted signature
   taken for a single transfer *)
SignatureCase_noDefault(signature) ==
    IF signature \in {tokenCreateEventSignatureOld, tokenCreateEventSignature}
    THEN "tokenCreate"
    ELSE IF signature = approvalForAllEventSignature THEN "approvalForAll"
    ELSE IF signature = transferBatchEventSignature THEN "transferBatch"
    ELSE "transferSingle"

(* the case of onEvent's switch that a signature selects *)
SignatureCase(signature) ==
    IF signature \in {tokenCreateEventSignatureOld, tokenCreateEventSignature}
    THEN "tokenCreate"
    ELSE IF signature = transferSingleEventSignature THEN "transferSingle"
    ELSE IF signature = approvalForAllEventSignature THEN "approvalForAll"
    ELSE IF signature = transferBatchEventSignature THEN "transferBatch"
    ELSE "default"

(* onEvent: the arguments it hands to process, the pattern cached afterwards
   and the URI queries it made, the first `fails` of which fail *)
onEvent(sub, ev, pattern, fails, template) ==
    LET case == SignatureCase(ev.signature)
    IN  IF case = "tokenCreate"
        THEN [messages |-> transformTokenPoolCreationEvent(sub, ev),
              uriPattern |-> pattern, queries |-> 0]
        ELSE IF case = "transferSingle"
        THEN LET r == transformTransferSingleEvent(sub, ev, <<>>, pattern,
                                                   QueryOutcome(0, fails, template))
             IN  [messages |-> r.msg, uriPattern |-> r.uriPattern,
                  queries |-> IF r.queried THEN 1 ELSE 0]
        ELSE IF case = "approvalForAll"
        THEN [messages |-> transformApprovalForAllEvent(sub, ev),
              uriPattern |-> pattern, queries |-> 0]
        ELSE IF case = "transferBatch"
        THEN transformTransferBatchEvent(sub, ev, pattern, fails, template)
        ELSE [messages |-> <<>>, uriPattern |-> pattern, queries |-> 0]

-----------------------------------------------------------------------------
(* Names of streams and subscriptions, and the event-stream transport *)

topicPrefix == <<"tokens">>
instancePath == <<"/", "instance">>

topicName(prefix, namespace) ==
    IF namespace = Undefined THEN prefix ELSE prefix \o <<"_">> \o namespace

packStreamName(topic, path) == Join(<<topic, path>>, NameDelim)

(* the stream-scope field of a subscription name *)
Scope(topic, path) == topic \o path

ALL_SUBSCRIBED_EVENTS ==
    <<tokenCreateEvent, transferSingleEvent, transferBatchEvent, approvalForAllEvent>>

UndefinedStream == [id |-> 0, name |-> Undefined]

(* streams.find(s => s.name === name) *)
FindStream(ss, name) ==
    IF \A i \in 1..Len(ss) : ss[i].name # name THEN UndefinedStream
    ELSE ss[CHOOSE i \in 1..Len(ss) :
                ss[i].name = name /\ \A j \in 1..(i - 1) : ss[j].name # name]

(* the transport's create-or-fetch of a stream by name *)
createOrUpdateStream(ss, name) ==
    IF FindStream(ss, name) # UndefinedStream THEN ss
    ELSE Append(ss, [id |-> Len(ss) + 1, name |-> name])

(* the transport's create-or-fetch of a subscription by name under a stream *)
getOrCreateSubscription(subs, streamId, eventName, name, fromBlock) ==
    IF \E s \in BagToSet(subs) : s.name = name /\ s.stream = streamId
    THEN subs
    ELSE subs (+) SetToBag({[name |-> name, stream |-> streamId, event |-> eventName,
                            fromBlock |-> fromBlock]})

(* the transport's listing of its subscriptions *)
RECURSIVE getSubscriptions(_)
getSubscriptions(subs) ==
    IF BagToSet(subs) = {} THEN <<>>
    ELSE LET s == CHOOSE x \in BagToSet(subs) : TRUE
         IN  <<s>> \o getSubscriptions(subs (-) SetToBag({s}))

-----------------------------------------------------------------------------
(* TokensService *)

BaseSubscription(topic) ==
    packSubscriptionName(Scope(topic, instancePath), BASE_SUBSCRIPTION_NAME,
                         tokenCreateEvent, Undefined)

(* a plausible slip: the streams of older naming schemes are not looked for *)
LocateStream_currentOnly(ss, topic) ==
    FindStream(ss, packStreamName(topic, instancePath))

(* migrationCheck up to its first return: the stream it settles on.  The
   look-up by the topic prefix alone only decides a log line: its result is
   overwritten by the next look-up. *)
LocateStream(ss, topic) ==
    LET name == packStreamName(topic, instancePath)
        current == FindStream(ss, name)
        byPrefix == FindStream(ss, topicPrefix)
        oldName == packStreamName(topicPrefix, instancePath)
    IN  IF current # UndefinedStream THEN current
        ELSE FindStream(ss, oldName)

(* the loop over the subscriptions: the events found for each pool locator,
   or unparseable as soon as a name does not unpack *)
RECURSIVE GroupEvents(_, _, _)
GroupEvents(subs, i, foundEvents) ==
    IF i > Len(subs) THEN [unparseable |-> FALSE, foundEvents |-> foundEvents]
    ELSE LET parts == unpackSubscriptionName(subs[i].name)
         IN  IF parts.poolLocator = Undefined \/ parts.event = Undefined
             THEN [unparseable |-> TRUE, foundEvents |-> foundEvents]
             ELSE GroupEvents(subs, i + 1,
                    IF parts.poolLocator \in DOMAIN foundEvents
                    THEN [foundEvents EXCEPT ![parts.poolLocator] = Append(@, parts.event)]
                    ELSE [l \in DOMAIN foundEvents \cup {parts.poolLocator} |->
                            IF l = parts.poolLocator THEN <<parts.event>>
                            ELSE foundEvents[l]])

Includes(s, x) == \E i \in 1..Len(s) : s[i] = x

(* a plausible slip: only the presence of each expected event is tested *)
IncompleteGroup_noCount(events) ==
    ~\A i \in 1..Len(ALL_SUBSCRIBED_EVENTS) : Includes(events, ALL_SUBSCRIBED_EVENTS[i])

(* the test on the events found for one pool *)
IncompleteGroup(events) ==
    \/ Len(ALL_SUBSCRIBED_EVENTS) # Len(events)
    \/ ~\A i \in 1..Len(ALL_SUBSCRIBED_EVENTS) : Includes(events, ALL_SUBSCRIBED_EVENTS[i])

(* a plausible slip: the base subscription is checked like a pool's *)
CheckSubscriptions_baseCounted(existingStream, allSubscriptions, topic) ==
    LET subs == SelectSeq(allSubscriptions, LAMBDA s : s.stream = existingStream.id)
    IN  IF Len(subs) = 0 THEN FALSE
        ELSE LET g == GroupEvents(subs, 1, <<>>)
             IN  IF g.unparseable THEN TRUE
                 ELSE \E l \in DOMAIN g.foundEvents : IncompleteGroup(g.foundEvents[l])

(* migrationCheck from the listing of the subscriptions on: its result *)
CheckSubscriptions(existingStream, allSubscriptions, topic) ==
    LET baseSubscription == BaseSubscription(topic)
        subs == SelectSeq(allSubscriptions,
                          LAMBDA s : s.stream = existingStream.id
                                     /\ s.name # baseSubscription)
    IN  IF Len(subs) = 0 THEN FALSE
        ELSE LET g == GroupEvents(subs, 1, <<>>)
             IN  IF g.unparseable THEN TRUE
                 ELSE \E l \in DOMAIN g.foundEvents : IncompleteGroup(g.foundEvents[l])

(* The invocations of the service's operations.  Each is a record of the
   operation, its arguments, the await it stands at, and its locals:
   existingStream of migrationCheck, the stream that getStream returned, the
   result of migrationCheck, and the subscription requests that activatePool
   handed to Promise.all. *)

Namespaces == {<<"ns1">>}
Topics == {topicName(topicPrefix, n) : n \in Namespaces}

MaxCalls == 2
MaxFailures == 1

NewCall(op, namespace, poolLocator, pc) ==
    [op |-> op, namespace |-> namespace, poolLocator |-> poolLocator, pc |-> pc,
     existingStream |-> UndefinedStream, streamUsed |-> UndefinedStream,
     drift |-> FALSE, reqs |-> <<>>]

ServiceIdle ==
    /\ streams = <<>>
    /\ subscriptions = EmptyBag
    /\ stream = [t \in Topics |-> UndefinedStream]
    /\ calls = <<>>
    /\ failures = 0

(* the four requests of activatePool, in the order of the array *)
PoolSubscriptionName_noEvent(topic, poolLocator, eventName) ==
    packSubscriptionName(Scope(topic, instancePath), poolLocator, tokenCreateEvent, Undefined)

PoolSubscriptionName(topic, poolLocator, eventName) ==
    packSubscriptionName(Scope(topic, instancePath), poolLocator, eventName, Undefined)

OrZero(blockNumber) == IF blockNumber = Undefined THEN <<"0">> ELSE blockNumber

(* a plausible slip: the approval subscription starts at the pool's block too *)
ActivationRequests_approvalFromPoolBlock(topic, streamId, dtoPoolLocator) ==
    LET poolLocator == unpackPoolLocator(dtoPoolLocator)
        Request(eventName, fromBlock) ==
            [stream |-> streamId, event |-> eventName,
             name |-> PoolSubscriptionName(topic, dtoPoolLocator, eventName),
             fromBlock |-> fromBlock, status |-> "pending"]
    IN  <<Request(tokenCreateEvent, OrZero(poolLocator.blockNumber)),
          Request(transferSingleEvent, OrZero(poolLocator.blockNumber)),
          Request(transferBatchEvent, OrZero(poolLocator.blockNumber)),
          Request(approvalForAllEvent, OrZero(poolLocator.blockNumber))>>

ActivationRequests(topic, streamId, dtoPoolLocator) ==
    LET poolLocator == unpackPoolLocator(dtoPoolLocator)
        Request(eventName, fromBlock) ==
            [stream |-> streamId, event |-> eventName,
             name |-> PoolSubscriptionName(topic, dtoPoolLocator, eventName),
             fromBlock |-> fromBlock, status |-> "pending"]
    IN  <<Request(tokenCreateEvent, OrZero(poolLocator.blockNumber)),
          Request(transferSingleEvent, OrZero(poolLocator.blockNumber)),
          Request(transferBatchEvent, OrZero(poolLocator.blockNumber)),
          Request(approvalForAllEvent, <<"0">>)>>

(* what the caller of getStream does with the stream it returns: init goes on
   to the base subscription, activatePool issues its four requests *)
AfterGetStream(call, s) ==
    LET topic == topicName(topicPrefix, call.namespace)
    IN  IF call.op = "init"
        THEN [call EXCEPT !.streamUsed = s, !.pc = "getOrCreateSubscription"]
        ELSE [call EXCEPT !.streamUsed = s, !.pc = "Promise.all",
                          !.reqs = ActivationRequests(topic, s.id, call.poolLocator)]

Returned(call) == call.pc = "returned"
Failed(call) == call.pc = "failed"

-----------------------------------------------------------------------------
(* Deliveries to the listener.  The chain emits transfers of tokens of known
   pools; the transport delivers each under the name of the subscription that
   matched it. *)

MaxBatch == 2

InstanceScope == Scope(topicPrefix, instancePath)
UriTemplate == <<"https://t/", "{id}", ".json">>

PoolIds == {<<"F", "1">>, <<"N", "1">>, <<"N", "2">>}

(* what a token id of an event is made from *)
TokenOrigins ==
    {[pool |-> p, index |-> <<"0">>] : p \in {q \in PoolIds : q[1] = "F"}}
    \cup {[pool |-> <<"N", "1">>, index |-> NatToString(n)] : n \in 1..2}
    \cup {[pool |-> <<"N", "2">>, index |-> <<"1">>]}

(* what a subscription name is made from: a pool's subscription, with or
   without a start block and pool data, or a name of an older scheme *)
SubOrigins ==
    {[kind |-> "pool", pool |-> p, block |-> Undefined, poolData |-> Undefined] :
        p \in {<<"F", "1">>, <<"N", "1">>}}
    \cup {[kind |-> "pool", pool |-> <<"N", "1">>, block |-> <<"5">>, poolData |-> <<"ns">>],
          [kind |-> "legacy", pool |-> Undefined, block |-> Undefined, poolData |-> Undefined]}

SubNameOf(o, eventName) ==
    IF o.kind = "pool"
    THEN packSubscriptionName(InstanceScope, packPoolLocator(o.pool, o.block),
                              eventName, o.poolData)
    ELSE IF o.kind = "base"
    THEN packSubscriptionName(InstanceScope, BASE_SUBSCRIPTION_NAME, tokenCreateEvent, Undefined)
    ELSE <<"tokens", NameDelim, "old">>

Addresses == {ZERO_ADDRESS, "0xABC"}

LogPositions ==
    {[blockNumber |-> <<"1", "2">>, transactionIndex |-> <<"0", "3">>, logIndex |-> <<"4">>],
     [blockNumber |-> Undefined, transactionIndex |-> <<"0">>, logIndex |-> Undefined]}

Seqs(S, n) == UNION {[1..k -> S] : k \in 0..n}

(* the token ids the chain emits, packed once *)
TokenIdOf == [tk \in TokenOrigins |-> packTokenId(tk.pool, tk.index)]

(* no delivery is being handled *)
Idle == event.signature = "none"

ListenerInit ==
    /\ uriPattern = Undefined
    /\ subName = <<>>
    /\ event = [signature |-> "none"]
    /\ origin = [sub |-> [kind |-> "none"], tokens |-> <<>>]
    /\ processed = <<>>
    /\ queries = 0

(* onEvent, case transferSingleEventSignature *)
OnTransferSingle ==
    /\ Idle
    /\ \E so \in SubOrigins, tk \in TokenOrigins, from \in Addresses, to \in Addresses,
       pos \in LogPositions, fails \in 0..1 :
        LET sub == SubNameOf(so, transferSingleEvent)
            ev == [signature |-> transferSingleEventSignature,
                   blockNumber |-> pos.blockNumber,
                   transactionIndex |-> pos.transactionIndex,
                   logIndex |-> pos.logIndex,
                   data |-> [from |-> from, to |-> to, operator |-> "0xOP",
                             id |-> TokenIdOf[tk], value |-> <<"1">>]]
        IN  \E r \in {transformTransferSingleEvent(sub, ev, <<>>, uriPattern,
                                                   QueryOutcome(0, fails, UriTemplate))} :
            /\ subName' = sub
            /\ event' = ev
            /\ origin' = [sub |-> so, tokens |-> <<tk>>]
            /\ processed' = <<r.msg>>
            /\ uriPattern' = r.uriPattern
            /\ queries' = IF r.queried THEN 1 ELSE 0

(* onEvent, case transferBatchEventSignature *)
OnTransferBatch ==
    /\ Idle
    /\ \E so \in SubOrigins, tks \in Seqs(TokenOrigins, MaxBatch),
       from \in Addresses, to \in Addresses, fails \in 0..MaxBatch :
        LET sub == SubNameOf(so, transferBatchEvent)
            pos == CHOOSE p \in LogPositions : p.blockNumber # Undefined
            ev == [signature |-> transferBatchEventSignature,
                   blockNumber |-> pos.blockNumber,
                   transactionIndex |-> pos.transactionIndex,
                   logIndex |-> pos.logIndex,
                   data |-> [from |-> from, to |-> to, operator |-> "0xOP",
                             ids |-> [i \in 1..Len(tks) |-> TokenIdOf[tks[i]]],
                             values |-> [i \in 1..Len(tks) |-> NatToString(i)]]]
        IN  \E r \in {transformTransferBatchEvent(sub, ev, uriPattern, fails, UriTemplate)} :
            /\ subName' = sub
            /\ event' = ev
            /\ origin' = [sub |-> so, tokens |-> tks]
            /\ processed' = [i \in 1..Len(r.messages) |-> <<r.messages[i]>>]
            /\ uriPattern' = r.uriPattern
            /\ queries' = r.queries

(* onEvent has returned: the listener waits for the next delivery, keeping
   only its cache *)
OnEventReturn ==
    /\ ~Idle
    /\ subName' = <<>>
    /\ event' = [signature |-> "none"]
    /\ origin' = [sub |-> [kind |-> "none"], tokens |-> <<>>]
    /\ processed' = <<>>
    /\ queries' = 0
    /\ UNCHANGED uriPattern

ListenerNext ==
    \/ OnTransferSingle /\ UNCHANGED <<codecVars, serviceVars>>
    \/ OnTransferBatch /\ UNCHANGED <<codecVars, serviceVars>>
    \/ OnEventReturn /\ UNCHANGED <<codecVars, serviceVars>>

(* the variables of the parts of the program a specification leaves alone *)
CodecIdle ==
    /\ pool_id = <<>> /\ token_index = <<>> /\ id = Undefined
    /\ unpacked = [isFungible |-> FALSE, poolId |-> Undefined, tokenIndex |-> Undefined]
    /\ cpc = "idle"
    /\ entries = <<>> /\ identities = <<>>
    /\ RequestsIdle
    /\ Deployed
    /\ NamesIdle

ListenerSpecInit == ListenerInit /\ CodecIdle /\ ServiceIdle

SpecListener == ListenerSpecInit /\ [][ListenerNext]_vars

(* the notifications of the last delivery: the defined arguments of process *)
RECURSIVE Flatten(_)
Flatten(ss) == IF ss = <<>> THEN <<>> ELSE Head(ss) \o Flatten(Tail(ss))

Notifications == Flatten(processed)

(* One log entry delivered through several subscriptions: the pool-creation
   and approval events, which the transport hands to every subscription
   that matches them.  processed gathers what each delivery handed to the
   notification channel, origin.through the subscriptions that delivered. *)

BaseOrigin == [kind |-> "base", pool |-> Undefined, block |-> Undefined, poolData |-> Undefined]

(* the type id of a pool, as the contract emits it *)
TypeIdOf == [p \in PoolIds |-> packTokenId(p, Undefined)]

Range(s) == {s[i] : i \in 1..Len(s)}

Through == IF Idle THEN <<>> ELSE origin.through

(* the log entry ev is delivered through the subscription of origin so, for
   the first time *)
Delivers(ev, so) == Idle \/ (event = ev /\ so \notin Range(origin.through))

(* onEvent, cases tokenCreateEventSignatureOld and tokenCreateEventSignature *)
OnTokenPoolCreation ==
    \E so \in SubOrigins \cup {BaseOrigin}, p \in PoolIds, pos \in LogPositions,
       signature \in {tokenCreateEventSignatureOld, tokenCreateEventSignature} :
        LET sub == SubNameOf(so, tokenCreateEvent)
            ev == [signature |-> signature,
                   blockNumber |-> pos.blockNumber,
                   transactionIndex |-> pos.transactionIndex,
                   logIndex |-> pos.logIndex,
                   data |-> [operator |-> "0xOP", type_id |-> TypeIdOf[p]]]
        IN  /\ Delivers(ev, so)
            /\ subName' = sub
            /\ event' = ev
            /\ origin' = [sub |-> so, tokens |-> <<[pool |-> p, index |-> <<"0">>]>>,
                          through |-> Append(Through, so)]
            /\ processed' = Append(processed, transformTokenPoolCreationEvent(sub, ev))
            /\ UNCHANGED <<uriPattern, queries>>

(* onEvent, case approvalForAllEventSignature *)
OnApprovalForAll ==
    \E so \in SubOrigins, pos \in LogPositions, approved \in BOOLEAN :
        LET sub == SubNameOf(so, approvalForAllEvent)
            ev == [signature |-> approvalForAllEventSignature,
                   blockNumber |-> pos.blockNumber,
                   transactionIndex |-> pos.transactionIndex,
                   logIndex |-> pos.logIndex,
                   data |-> [account |-> "0xABC", operator |-> "0xOP",
                             approved |-> approved]]
        IN  /\ Delivers(ev, so)
            /\ subName' = sub
            /\ event' = ev
            /\ origin' = [sub |-> so, tokens |-> <<>>, through |-> Append(Through, so)]
            /\ processed' = Append(processed, transformApprovalForAllEvent(sub, ev))
            /\ UNCHANGED <<uriPattern, queries>>

FanOutInit == ListenerInit /\ CodecIdle /\ ServiceIdle

FanOutNext ==
    \/ OnTokenPoolCreation /\ UNCHANGED <<codecVars, serviceVars>>
    \/ OnApprovalForAll /\ UNCHANGED <<codecVars, serviceVars>>
    \/ OnEventReturn /\ UNCHANGED <<codecVars, serviceVars>>

SpecFanOut == FanOutInit /\ [][FanOutNext]_vars

-----------------------------------------------------------------------------
(* Deliveries of log entries of any signature, one after the other: processed
   gathers what each delivery handed to the notification channel and
   origin.delivered the entries, in the order of their delivery, each with
   the pattern the listener had cached when it came. *)

MaxDeliveries == 2

(* signatures the switch of onEvent does not list: another event of the
   contract, and a transfer of another arity *)
OtherSignatures == {"URI(string,uint256)", "TransferSingle(address,address,uint256)"}

Delivered == IF Idle THEN <<>> ELSE origin.delivered

(* onEvent, for an entry that carries the data of a single transfer under a
   listed or an unlisted signature *)
OnEvent ==
    /\ Len(Delivered) < MaxDeliveries
    /\ \E so \in {o \in SubOrigins : o.kind = "pool" /\ o.block = Undefined},
          tk \in {o \in TokenOrigins : o.index \in {<<"0">>, <<"1">>}}, fails \in 0..1,
          signature \in {transferSingleEventSignature} \cup OtherSignatures :
        LET sub == SubNameOf(so, transferSingleEvent)
            pos == CHOOSE p \in LogPositions : p.blockNumber # Undefined
            ev == [signature |-> signature,
                   blockNumber |-> pos.blockNumber,
                   transactionIndex |-> pos.transactionIndex,
                   logIndex |-> pos.logIndex,
                   data |-> [from |-> ZERO_ADDRESS, to |-> "0xABC", operator |-> "0xOP",
                             id |-> TokenIdOf[tk], value |-> <<"1">>]]
        IN  \E r \in {onEvent(sub, ev, uriPattern, fails, UriTemplate)} :
            /\ subName' = sub
            /\ event' = ev
            /\ origin' = [sub |-> so, tokens |-> <<tk>>,
                          delivered |-> Append(Delivered, [sub |-> sub, ev |-> ev,
                                                         cached |-> uriPattern])]
            /\ processed' = Append(processed, r.messages)
            /\ uriPattern' = r.uriPattern
            /\ queries' = r.queries

DispatchInit == ListenerInit /\ CodecIdle /\ ServiceIdle

DispatchNext ==
    \/ OnEvent /\ UNCHANGED <<codecVars, serviceVars>>
    \/ OnEventReturn /\ UNCHANGED <<codecVars, serviceVars>>

SpecDispatch == DispatchInit /\ [][DispatchNext]_vars

-----------------------------------------------------------------------------
(* Deliveries of log entries of every listed signature under the name of a
   pool's subscription or under a name that does not unpack, one after the
   other; processed and origin.delivered as above, each delivery with what
   its subscription name was made of. *)

(* names of another number of parts than three or four *)
StrayNames ==
    {<<>>, <<"tokens", NameDelim, "old">>,
     <<"tokens", NameDelim, "a", NameDelim, "b", NameDelim, "c", NameDelim, "d">>}

NamedOrigins ==
    {[kind |-> "pool", pool |-> <<"N", "1">>, block |-> Undefined, poolData |-> Undefined]}
    \cup {[kind |-> "stray", name |-> n] : n \in StrayNames}

ListedSignatures ==
    {tokenCreateEventSignatureOld, tokenCreateEventSignature, transferSingleEventSignature,
     transferBatchEventSignature, approvalForAllEventSignature}

(* the event a subscription for a signature is named after *)
EventNameOf(signature) ==
    IF signature \in {tokenCreateEventSignatureOld, tokenCreateEventSignature}
    THEN tokenCreateEvent
    ELSE IF signature = transferSingleEventSignature THEN transferSingleEvent
    ELSE IF signature = transferBatchEventSignature THEN transferBatchEvent
    ELSE approvalForAllEvent

(* the data of an entry of a signature, about the token tk *)
DataOf(signature, tk) ==
    IF signature \in {tokenCreateEventSignatureOld, tokenCreateEventSignature}
    THEN [operator |-> "0xOP", type_id |-> TypeIdOf[tk.pool]]
    ELSE IF signature = transferSingleEventSignature
    THEN [from |-> ZERO_ADDRESS, to |-> "0xABC", operator |-> "0xOP",
          id |-> TokenIdOf[tk], value |-> <<"1">>]
    ELSE IF signature = transferBatchEventSignature
    THEN [from |-> ZERO_ADDRESS, to |-> "0xABC", operator |-> "0xOP",
          ids |-> <<TokenIdOf[tk]>>, values |-> <<"1">>]
    ELSE [account |-> "0xABC", operator |-> "0xOP", approved |-> TRUE]

(* onEvent, for an entry of a listed signature *)
OnListedEvent ==
    /\ Len(Delivered) < MaxDeliveries
    /\ \E so \in NamedOrigins, signature \in ListedSignatures, fails \in 0..1 :
        LET tk == [pool |-> <<"N", "1">>, index |-> <<"1">>]
            sub == IF so.kind = "stray" THEN so.name
                   ELSE SubNameOf(so, EventNameOf(signature))
            pos == CHOOSE p \in LogPositions : p.blockNumber # Undefined
            ev == [signature |-> signature,
                   blockNumber |-> pos.blockNumber,
                   transactionIndex |-> pos.transactionIndex,
                   logIndex |-> pos.logIndex,
                   data |-> DataOf(signature, tk)]
        IN  \E r \in {onEvent(sub, ev, uriPattern, fails, UriTemplate)} :
            /\ subName' = sub
            /\ event' = ev
            /\ origin' = [sub |-> so, tokens |-> <<tk>>,
                          delivered |-> Append(Delivered, [sub |-> sub, ev |-> ev,
                                                         cached |-> uriPattern,
                                                         kind |-> so.kind])]
            /\ processed' = Append(processed, r.messages)
            /\ uriPattern' = r.uriPattern
            /\ queries' = r.queries

StrayInit == ListenerInit /\ CodecIdle /\ ServiceIdle

StrayNext ==
    \/ OnListedEvent /\ UNCHANGED <<codecVars, serviceVars>>
    \/ OnEventReturn /\ UNCHANGED <<codecVars, serviceVars>>

SpecStray == StrayInit /\ [][StrayNext]_vars

-----------------------------------------------------------------------------
(* The codec on its own: packTokenId applied to an in-range pool id and token
   index, then unpackTokenId applied to the result. *)

MaxSmall == 2

(* 2^n - 1 *)
AllOnes(n) == [i \in 1..(n \div 16) |-> Limb - 1] \o
              (IF n % 16 = 0 THEN <<>> ELSE <<2^(n % 16) - 1>>)

Small == {IF n = 0 THEN Zero ELSE <<n>> : n \in 0..MaxSmall}

(* pool sequences below 2^127 and token indexes below 2^128 *)
SequenceSamples == Small \cup {AllOnes(127)}
IndexSamples == Small \cup {AllOnes(64), AllOnes(128)}

Tags == {"F", "N"}

CodecInit ==
    /\ \E tag \in Tags, s \in SequenceSamples : pool_id = <<tag>> \o ToDec(s)
    /\ \E i \in IndexSamples : token_index \in {ToDec(i), Undefined}
    /\ id = Undefined
    /\ unpacked = [isFungible |-> FALSE, poolId |-> Undefined, tokenIndex |-> Undefined]
    /\ cpc = "start"
    /\ entries = <<>> /\ identities = <<>>
    /\ RequestsIdle
    /\ Deployed
    /\ NamesIdle

ListenerIdle ==
    /\ uriPattern = Undefined /\ subName = <<>> /\ event = [signature |-> "none"]
    /\ origin = [sub |-> [kind |-> "none"], tokens |-> <<>>]
    /\ processed = <<>> /\ queries = 0

PackTokenId ==
    /\ cpc = "start"
    /\ id' = packTokenId(pool_id, token_index)
    /\ cpc' = "packed"
    /\ UNCHANGED <<pool_id, token_index, unpacked, entries, identities, dto, invoked, reply, contractVars, nameVars,
                   listenerVars, serviceVars>>

UnpackTokenId ==
    /\ cpc = "packed"
    /\ unpacked' = unpackTokenId(id)
    /\ cpc' = "unpacked"
    /\ UNCHANGED <<pool_id, token_index, id, entries, identities, dto, invoked, reply, contractVars, nameVars,
                   listenerVars, serviceVars>>

CodecNext == PackTokenId \/ UnpackTokenId

CodecSpecInit == CodecInit /\ ListenerIdle /\ ServiceIdle

SpecCodec == CodecSpecInit /\ [][CodecNext]_vars

(* The codec on any argument: pool sequences of 2^127 and more, token indexes
   of 2^128 and more, and a tag that is neither F nor N. *)

AnySequenceSamples == SequenceSamples \cup {Add(AllOnes(127), One), Add(AllOnes(127), <<2>>)}
AnyIndexSamples == IndexSamples \cup {Add(AllOnes(128), One)}
AnyTags == Tags \cup {"X"}

AnyCodecInit ==
    /\ \E tag \in AnyTags, s \in AnySequenceSamples : pool_id = <<tag>> \o ToDec(s)
    /\ \E i \in AnyIndexSamples : token_index \in {ToDec(i), Undefined}
    /\ id = Undefined
    /\ unpacked = [isFungible |-> FALSE, poolId |-> Undefined, tokenIndex |-> Undefined]
    /\ cpc = "start"
    /\ entries = <<>> /\ identities = <<>>
    /\ RequestsIdle
    /\ Deployed
    /\ NamesIdle
    /\ ListenerIdle
    /\ ServiceIdle

SpecAnyCodec == AnyCodecInit /\ [][CodecNext]_vars

(* unpackTokenId on any 256-bit numeral: the numeral is written from the
   value flag * 2^255 + sequence * 2^128 + index, with or without leading
   zeros, and no packTokenId has run.  pool_id and token_index keep the
   fields the value was made of. *)

FieldSequenceSamples == SequenceSamples \cup {AllOnes(64)}

ValueOf(tag, s, i) ==
    Add(Add(ShiftLeft(IF tag = "N" THEN One ELSE Zero, 255), ShiftLeft(s, 128)), i)

AnyIdInit ==
    /\ \E tag \in Tags, s \in FieldSequenceSamples, i \in IndexSamples,
          zeros \in {<<>>, <<"0", "0">>} :
            /\ pool_id = <<tag>> \o ToDec(s)
            /\ token_index = ToDec(i)
            /\ id = zeros \o ToDec(ValueOf(tag, s, i))
    /\ unpacked = [isFungible |-> FALSE, poolId |-> Undefined, tokenIndex |-> Undefined]
    /\ cpc = "packed"
    /\ entries = <<>> /\ identities = <<>>
    /\ RequestsIdle
    /\ Deployed
    /\ NamesIdle
    /\ ListenerIdle
    /\ ServiceIdle

AnyIdNext == UnpackTokenId

SpecAnyId == AnyIdInit /\ [][AnyIdNext]_vars

(* The subscription-name codec on its own: a name is packed from fields and
   unpacked again, or a name nobody packed is unpacked. *)

NameScopeSamples == {Scope(topicName(topicPrefix, <<"ns1">>), instancePath), topicPrefix}

NameLocatorSamples ==
    {BASE_SUBSCRIPTION_NAME,
     packPoolLocator(<<"F", "1">>, Undefined),
     packPoolLocator(<<"N", "1">>, <<"5">>)}

(* the empty event name is the one migrationCheck packs its grouping key with *)
NameEventSamples == {<<>>, tokenCreateEvent, transferBatchEvent}

PoolDataSamples == {Undefined, <<>>, <<"d", "1">>}

NameFieldSamples ==
    [scope : NameScopeSamples, poolLocator : NameLocatorSamples,
     event : NameEventSamples, poolData : PoolDataSamples]

(* names of one, two and five parts, the empty name, and names of the
   stream-name and of earlier schemes *)
ForeignNames ==
    {<<>>,
     topicPrefix,
     <<NameDelim>>,
     packStreamName(topicPrefix, instancePath),
     Join(<<topicPrefix, BASE_SUBSCRIPTION_NAME>>, NameDelim),
     Join(<<topicPrefix, instancePath, BASE_SUBSCRIPTION_NAME, tokenCreateEvent, <<"d">>>>,
          NameDelim),
     Join(<<topicPrefix, <<>>, <<>>, <<>>, <<>>>>, NameDelim)}

NamesInit ==
    /\ \/ /\ nameFields \in NameFieldSamples
          /\ packedName = Undefined
          /\ cpc = "fields"
       \/ /\ nameFields = NoFields
          /\ packedName \in ForeignNames
          /\ cpc = "named"
    /\ unpackedName = NoFields
    /\ pool_id = <<>> /\ token_index = <<>> /\ id = Undefined
    /\ unpacked = [isFungible |-> FALSE, poolId |-> Undefined, tokenIndex |-> Undefined]
    /\ entries = <<>> /\ identities = <<>>
    /\ RequestsIdle
    /\ Deployed
    /\ ListenerIdle
    /\ ServiceIdle

NamesUnchanged ==
    UNCHANGED <<pool_id, token_index, id, unpacked, entries, identities, dto, invoked,
                reply, contractVars, listenerVars, serviceVars>>

PackSubscriptionName ==
    /\ cpc = "fields"
    /\ packedName' = packSubscriptionName(nameFields.scope, nameFields.poolLocator,
                                          nameFields.event, nameFields.poolData)
    /\ cpc' = "named"
    /\ UNCHANGED <<nameFields, unpackedName>>
    /\ NamesUnchanged

UnpackSubscriptionName ==
    /\ cpc = "named"
    /\ unpackedName' = unpackSubscriptionName(packedName)
    /\ cpc' = "parsed"
    /\ UNCHANGED <<nameFields, packedName>>
    /\ NamesUnchanged

NamesNext == PackSubscriptionName \/ UnpackSubscriptionName

SpecNames == NamesInit /\ [][NamesNext]_vars

-----------------------------------------------------------------------------
(* Identities on their own: formatBlockchainEventId and the id of a transfer
   applied to two log entries of the chain. *)

(* block numbers below 10^12, of one to twelve digits, and none *)
BlockSamples == {<<"2">>, <<"1", "0">>, [i \in 1..12 |-> "9"], Undefined}

(* transaction indexes below 10^6, as the transport writes them *)
TxSamples == {<<"2">>, <<"0", "3">>, <<"1", "0">>, [i \in 1..6 |-> "9"]}

(* log indexes below 10^6, and none *)
LogSamples == {<<"2">>, <<"1", "0">>, Undefined}

(* the position of a member of a batch, or none for a single transfer *)
MemberSamples == {<<>>, <<2>>, <<10>>}

LogEntries ==
    [blockNumber : BlockSamples, transactionIndex : TxSamples, logIndex : LogSamples,
     eventIndex : MemberSamples]

EventIdInit ==
    /\ \E a \in LogEntries, b \in LogEntries : entries = <<a, b>>
    /\ identities = <<>>
    /\ cpc = "format"
    /\ RequestsIdle
    /\ Deployed
    /\ NamesIdle
    /\ pool_id = <<>> /\ token_index = <<>> /\ id = Undefined
    /\ unpacked = [isFungible |-> FALSE, poolId |-> Undefined, tokenIndex |-> Undefined]
    /\ ListenerIdle
    /\ ServiceIdle

(* the identity of each of the two entries is made *)
FormatBlockchainEventId ==
    /\ cpc = "format"
    /\ identities' = [i \in 1..2 |->
            TransferId(formatBlockchainEventId(entries[i]), entries[i].eventIndex)]
    /\ cpc' = "formatted"
    /\ UNCHANGED <<pool_id, token_index, id, unpacked, entries, dto, invoked, reply, contractVars, nameVars,
                   listenerVars, serviceVars>>

EventIdNext == FormatBlockchainEventId

SpecEventId == EventIdInit /\ [][EventIdNext]_vars

-----------------------------------------------------------------------------
(* TokensService: the outbound operations mint, transfer, burn and balance,
   each applied to one request and one answer of the chain-invocation
   client. *)

(* the two hex digits of each UTF-8 byte of the symbols used as data *)
HexOfByte(ch) == IF ch = "a" THEN <<"6", "1">> ELSE <<"6", "2">>

RECURSIVE HexOfBytes(_)
HexOfBytes(s) == IF s = <<>> THEN <<>> ELSE HexOfByte(Head(s)) \o HexOfBytes(Tail(s))

encodeHex(data) == <<"0", "x">> \o HexOfBytes(data)

OrEmpty(data) == IF data = Undefined THEN <<>> ELSE data

(* parseInt(s): the value of the leading digits of s, NaN when it has none *)
NaN == [nan |-> TRUE, value |-> 0]

RECURSIVE LeadingDigits(_)
LeadingDigits(s) ==
    IF s = <<>> \/ ~IsDigit(Head(s)) THEN <<>> ELSE <<Head(s)>> \o LeadingDigits(Tail(s))

parseInt(s) ==
    IF LeadingDigits(s) = <<>> THEN NaN
    ELSE [nan |-> FALSE, value |-> ShortVal(LeadingDigits(s))]

(* the array that the loop `for (i = 0; i < amount; i++) to.push(x)` fills *)
Pushed(x, amount) == IF amount.nan THEN <<>> ELSE [i \in 1..amount.value |-> x]

(* invoke and query: the call handed to the HTTP client, with its answer *)
invoke(path, from, requestId, body, response) ==
    [method |-> "POST", path |-> path, from |-> from, id |-> requestId, body |-> body,
     response |-> response]

query(path, params, response) ==
    [method |-> "GET", path |-> path, params |-> params, response |-> response]

(* wrapError: the failure of the HTTP call is thrown on *)
InternalServerError == <<"InternalServerErrorException">>

(* what an operation that awaited one call returns: the id of the answer, or
   the error thrown on *)
AsyncResponse(response) == IF response.ok THEN [id |-> response.id] ELSE InternalServerError

(* a plausible slip: the loop runs once too often *)
mint_oneMore(d, response) ==
    LET poolLocator == unpackPoolLocator(d.poolLocator)
        typeId == packTokenId(poolLocator.poolId, Undefined)
    IN  IF isFungible(poolLocator.poolId)
        THEN [invoked |-> <<invoke("/mintFungible", d.signer, d.requestId,
                                   [type_id |-> typeId, to |-> <<d.to>>,
                                    amounts |-> <<d.amount>>,
                                    data |-> encodeHex(OrEmpty(d.data))], response)>>,
              reply |-> AsyncResponse(response)]
        ELSE [invoked |-> <<invoke("/mintNonFungible", d.signer, d.requestId,
                                   [type_id |-> typeId,
                                    to |-> Pushed(d.to, parseInt(d.amount)) \o <<d.to>>,
                                    data |-> encodeHex(OrEmpty(d.data))], response)>>,
              reply |-> AsyncResponse(response)]

mint(d, response) ==
    LET poolLocator == unpackPoolLocator(d.poolLocator)
        typeId == packTokenId(poolLocator.poolId, Undefined)
    IN  IF isFungible(poolLocator.poolId)
        THEN [invoked |-> <<invoke("/mintFungible", d.signer, d.requestId,
                                   [type_id |-> typeId, to |-> <<d.to>>,
                                    amounts |-> <<d.amount>>,
                                    data |-> encodeHex(OrEmpty(d.data))], response)>>,
              reply |-> AsyncResponse(response)]
        ELSE [invoked |-> <<invoke("/mintNonFungible", d.signer, d.requestId,
                                   [type_id |-> typeId,
                                    to |-> Pushed(d.to, parseInt(d.amount)),
                                    data |-> encodeHex(OrEmpty(d.data))], response)>>,
              reply |-> AsyncResponse(response)]

(* a plausible slip: the token index is left out of the token id *)
transfer_indexLeftOut(d, response) ==
    LET poolLocator == unpackPoolLocator(d.poolLocator)
    IN  [invoked |-> <<invoke("/safeTransferFrom", d.signer, d.requestId,
                               [from |-> d.from, to |-> d.to,
                                id |-> packTokenId(poolLocator.poolId, Undefined),
                                amount |-> d.amount,
                                data |-> encodeHex(OrEmpty(d.data))], response)>>,
         reply |-> AsyncResponse(response)]

transfer(d, response) ==
    LET poolLocator == unpackPoolLocator(d.poolLocator)
    IN  [invoked |-> <<invoke("/safeTransferFrom", d.signer, d.requestId,
                               [from |-> d.from, to |-> d.to,
                                id |-> packTokenId(poolLocator.poolId, d.tokenIndex),
                                amount |-> d.amount,
                                data |-> encodeHex(OrEmpty(d.data))], response)>>,
         reply |-> AsyncResponse(response)]

burn(d, response) ==
    LET poolLocator == unpackPoolLocator(d.poolLocator)
    IN  [invoked |-> <<invoke("/burn", d.signer, d.requestId,
                               [from |-> d.from,
                                id |-> packTokenId(poolLocator.poolId, d.tokenIndex),
                                amount |-> d.amount,
                                data |-> encodeHex(OrEmpty(d.data))], response)>>,
         reply |-> AsyncResponse(response)]

balance(d, response) ==
    LET poolLocator == unpackPoolLocator(d.poolLocator)
    IN  [invoked |-> <<query("/balanceOf",
                              [account |-> d.account,
                               id |-> packTokenId(poolLocator.poolId, d.tokenIndex)],
                              response)>>,
         reply |-> IF response.ok THEN [balance |-> response.output]
                   ELSE InternalServerError]

(* the requests: pools with and without a start block in their locator *)
RequestLocators ==
    {packPoolLocator(<<"F", "1">>, Undefined), packPoolLocator(<<"F", "1">>, <<"7">>),
     packPoolLocator(<<"N", "1">>, Undefined), packPoolLocator(<<"N", "1">>, <<"5">>)}

Accounts == {"0xA", "0xB"}
Amounts == {<<"1">>, <<"2">>, <<"0", "3">>}
TokenIndexes == {Undefined, <<"0">>, <<"2">>}

MintRequests ==
    [op : {"mint"}, poolLocator : RequestLocators, to : Accounts, amount : Amounts,
     signer : {"0xS"}, requestId : {Undefined, <<"rq1">>}, data : {Undefined, <<"a">>}]

TransferRequests ==
    [op : {"transfer"}, poolLocator : RequestLocators, tokenIndex : TokenIndexes,
     from : {"0xA"}, to : {"0xB"}, amount : Amounts,
     signer : {"0xS"}, requestId : {<<"rq1">>}, data : {Undefined}]

BurnRequests ==
    [op : {"burn"}, poolLocator : RequestLocators, tokenIndex : TokenIndexes,
     from : Accounts, amount : Amounts,
     signer : {"0xS"}, requestId : {<<"rq1">>}, data : {Undefined}]

BalanceQueries ==
    [op : {"balance"}, poolLocator : RequestLocators, tokenIndex : TokenIndexes,
     account : Accounts]

(* the answers of the chain-invocation client: accepted, with the id it gave
   the request or the output of the query, or failed *)
Responses ==
    {[ok |-> TRUE, id |-> "1", output |-> <<"1">>],
     [ok |-> TRUE, id |-> "2", output |-> <<"0">>],
     [ok |-> FALSE, id |-> "", output |-> <<>>]}

RequestsInit ==
    /\ dto \in MintRequests \cup TransferRequests \cup BurnRequests \cup BalanceQueries
    /\ invoked = <<>>
    /\ reply = Undefined
    /\ cpc = "request"
    /\ pool_id = <<>> /\ token_index = <<>> /\ id = Undefined
    /\ unpacked = [isFungible |-> FALSE, poolId |-> Undefined, tokenIndex |-> Undefined]
    /\ entries = <<>> /\ identities = <<>>
    /\ Deployed
    /\ NamesIdle
    /\ ListenerIdle
    /\ ServiceIdle

(* the operation has run to its end: its calls and what it returned *)
Responded(r) ==
    /\ cpc = "request"
    /\ invoked' = r.invoked
    /\ reply' = r.reply
    /\ cpc' = "responded"
    /\ UNCHANGED <<pool_id, token_index, id, unpacked, entries, identities, dto,
                   contractVars, nameVars, listenerVars, serviceVars>>

Mint == dto.op = "mint" /\ \E response \in Responses : Responded(mint(dto, response))
Transfer == dto.op = "transfer" /\ \E response \in Responses : Responded(transfer(dto, response))
Burn == dto.op = "burn" /\ \E response \in Responses : Responded(burn(dto, response))
Balance == dto.op = "balance" /\ \E response \in Responses : Responded(balance(dto, response))

RequestsNext == Mint \/ Transfer \/ Burn \/ Balance

SpecRequests == RequestsInit /\ [][RequestsNext]_vars

-----------------------------------------------------------------------------
(* The token contract ERC1155MixedFungible.  A transaction runs to its end
   or reverts, and a reverted transaction leaves the storage as it was.
   Words are kept by their three bit fields; within the bounds below no
   field outgrows its width. *)

MaxPools == 2
MaxMinted == 2

TYPE_NF_BIT == Word(TRUE, 0, 0)

RECURSIVE BitOr(_, _)
BitOr(a, b) ==
    IF a = 0 THEN b
    ELSE IF b = 0 THEN a
    ELSE (IF a % 2 = 1 \/ b % 2 = 1 THEN 1 ELSE 0) + 2 * BitOr(a \div 2, b \div 2)

(* x | y on words *)
WordOr(x, y) == Word(x.nf \/ y.nf, BitOr(x.type, y.type), BitOr(x.index, y.index))

(* a small number as a word, and n << 128 *)
Uint(n) == Word(FALSE, 0, n)

(* a plausible slip: the nonce not shifted *)
Shl128_notShifted(n) == Word(FALSE, 0, n)

Shl128(n) == Word(FALSE, n, 0)

idIsFungible(w) == ~w.nf
isNonFungible(w) == w.nf

(* a mapping read: the value stored under the key, or the default *)
At(mapping, key, default) == IF key \in DOMAIN mapping THEN mapping[key] ELSE default

(* a mapping write; a mapping keeps the keys whose value is not the default,
   so that equal storage is one value *)
Put(mapping, key, value, default) ==
    LET keys == IF value = default THEN DOMAIN mapping \ {key}
                ELSE DOMAIN mapping \cup {key}
    IN  [k \in keys |-> IF k = key THEN value ELSE mapping[k]]

ZeroAddress == "0x0"

(* a plausible slip: the modifier left off *)
creatorOnly_anySender(type_id, sender) == TRUE

creatorOnly(type_id, sender) == At(creators, type_id, ZeroAddress) = sender

(* ERC1155._mint, called once for each member of to: the balance of the
   account grows and TransferSingle is emitted *)
RECURSIVE MintedBalances(_, _, _, _, _)
MintedBalances(bal, to, ids, amounts, i) ==
    IF i > Len(to) THEN bal
    ELSE MintedBalances(Put(bal, <<ids[i], to[i]>>,
                            At(bal, <<ids[i], to[i]>>, 0) + amounts[i], 0),
                        to, ids, amounts, i + 1)

TransferSingle(operator, to, ids, amounts, i) ==
    [operator |-> operator, to |-> to[i], id |-> ids[i], value |-> amounts[i]]

TransferSingles(operator, to, ids, amounts) ==
    LET events == {TransferSingle(operator, to, ids, amounts, i) : i \in 1..Len(to)}
    IN  [e \in events |->
            Cardinality({i \in 1..Len(to) :
                            TransferSingle(operator, to, ids, amounts, i) = e})]

RECURSIVE UrisSet(_, _, _, _)
UrisSet(uris, ids, uri, i) ==
    IF i > Len(ids) THEN uris
    ELSE UrisSet(Put(uris, ids[i], uri, ""), ids, uri, i + 1)

Call(fn, sender, type_id, reverted) ==
    [fn |-> fn, sender |-> sender, type_id |-> type_id, reverted |-> reverted]

Reverts(fn, sender, type_id) ==
    /\ tx' = Call(fn, sender, type_id, TRUE)
    /\ UNCHANGED <<nonce, creators, maxIndex, balances, nfTokenURIs, emitted>>

(* the loop of a mint has run for every member of to *)
Mints(fn, sender, type_id, to, ids, amounts) ==
    /\ BagCardinality(emitted) + Len(to) <= MaxMinted
    /\ balances' = MintedBalances(balances, to, ids, amounts, 1)
    /\ emitted' = emitted (+) TransferSingles(sender, to, ids, amounts)
    /\ tx' = Call(fn, sender, type_id, FALSE)

create(sender, is_fungible) ==
    LET shifted == Shl128(nonce + 1)
        type_id == IF ~is_fungible THEN WordOr(shifted, TYPE_NF_BIT) ELSE shifted
    IN  /\ nonce < MaxPools
        /\ nonce' = nonce + 1
        /\ creators' = Put(creators, type_id, sender, ZeroAddress)
        /\ tx' = [is_fungible |-> is_fungible] @@ Call("create", sender, type_id, FALSE)
        /\ UNCHANGED <<maxIndex, balances, nfTokenURIs, emitted>>

(* the ids of one mintNonFungible call: type_id | index + i, i from 0 *)
NonFungibleIds(type_id, index, to) ==
    [i \in 1..Len(to) |-> WordOr(type_id, Uint(index + (i - 1)))]

mintNonFungible(sender, type_id, to) ==
    IF creatorOnly(type_id, sender) /\ isNonFungible(type_id)
    THEN LET index == At(maxIndex, type_id, 0) + 1 IN
         /\ maxIndex' = Put(maxIndex, type_id, Len(to) + At(maxIndex, type_id, 0), 0)
         /\ Mints("mintNonFungible", sender, type_id, to,
                  NonFungibleIds(type_id, index, to), [i \in 1..Len(to) |-> 1])
         /\ UNCHANGED <<nonce, creators, nfTokenURIs>>
    ELSE Reverts("mintNonFungible", sender, type_id)

(* the ids of one mintNonFungibleWithURI call: type_id | index + 1 at every
   turn of the loop *)
NonFungibleWithURIIds(type_id, index, to) ==
    [i \in 1..Len(to) |-> WordOr(type_id, Uint(index + 1))]

mintNonFungibleWithURI(sender, type_id, to, uri) ==
    IF creatorOnly(type_id, sender) /\ isNonFungible(type_id)
    THEN LET index == At(maxIndex, type_id, 0) + 1
             ids == NonFungibleWithURIIds(type_id, index, to)
         IN
         /\ maxIndex' = Put(maxIndex, type_id, Len(to) + At(maxIndex, type_id, 0), 0)
         /\ Mints("mintNonFungibleWithURI", sender, type_id, to, ids,
                  [i \in 1..Len(to) |-> 1])
         /\ nfTokenURIs' = UrisSet(nfTokenURIs, ids, uri, 1)
         /\ UNCHANGED <<nonce, creators>>
    ELSE Reverts("mintNonFungibleWithURI", sender, type_id)

mintFungible(sender, type_id, to, amounts) ==
    IF /\ creatorOnly(type_id, sender)
       /\ idIsFungible(type_id)
       /\ Len(to) = Len(amounts)
    THEN /\ Mints("mintFungible", sender, type_id, to,
                  [i \in 1..Len(to) |-> type_id], amounts)
         /\ UNCHANGED <<nonce, creators, maxIndex, nfTokenURIs>>
    ELSE Reverts("mintFungible", sender, type_id)

Senders == {"0xA", "0xB"}

(* the type ids a sender may pass: those of the pools created so far, and
   the id of a token, under which no creator is ever stored *)
TypeIds == DOMAIN creators \cup {Word(TRUE, 1, 1)}

ToLists == {<<>>, <<"0xA">>, <<"0xC", "0xA">>}
AmountLists == {<<2>>, <<1, 2>>}

ContractUnchanged ==
    UNCHANGED <<pool_id, token_index, id, unpacked, cpc, entries, identities,
                dto, invoked, reply, nameVars, listenerVars, serviceVars>>

Create ==
    /\ \E sender \in Senders, is_fungible \in BOOLEAN : create(sender, is_fungible)
    /\ ContractUnchanged

(* a call that fails creatorOnly reverts before its lists are read, so one
   list stands for all of them *)
ListsFor(sender, type_id, lists) ==
    IF creatorOnly(type_id, sender) THEN lists ELSE {<<>>}

MintNonFungible ==
    /\ \E sender \in Senders, type_id \in TypeIds :
           \E to \in ListsFor(sender, type_id, ToLists) :
               mintNonFungible(sender, type_id, to)
    /\ ContractUnchanged

MintNonFungibleWithURI ==
    /\ \E sender \in Senders, type_id \in TypeIds :
           \E to \in ListsFor(sender, type_id, ToLists) :
               mintNonFungibleWithURI(sender, type_id, to, "uri")
    /\ ContractUnchanged

MintFungible ==
    /\ \E sender \in Senders, type_id \in TypeIds :
           \E to \in ListsFor(sender, type_id, ToLists),
              amounts \in ListsFor(sender, type_id, AmountLists) :
               mintFungible(sender, type_id, to, amounts)
    /\ ContractUnchanged

ContractInit == CodecIdle /\ ListenerIdle /\ ServiceIdle

ContractNext == Create \/ MintNonFungible \/ MintNonFungibleWithURI \/ MintFungible

SpecContract == ContractInit /\ [][ContractNext]_vars

(* the custom URIs of tokens.  _setNonFungibleURI is public: any account may
   send it, with any type id and any token id. *)

baseTokenURI == "base"

uriOf(token) ==
    LET tokenUri == At(nfTokenURIs, token, "")
    IN  IF tokenUri = "" THEN baseTokenURI ELSE tokenUri

setNonFungibleURI(sender, type_id, token, tokenUri) ==
    IF creatorOnly(type_id, sender) /\ isNonFungible(type_id)
    THEN /\ nfTokenURIs' = Put(nfTokenURIs, token, tokenUri, "")
         /\ tx' = Call("_setNonFungibleURI", sender, type_id, FALSE)
         /\ UNCHANGED <<nonce, creators, maxIndex, balances, emitted>>
    ELSE Reverts("_setNonFungibleURI", sender, type_id)

(* the token ids a sender may pass: for each pool created so far, the id of
   the pool, which is the id of its tokens when it is fungible, and the id
   of its first token; a call that fails creatorOnly reverts before its
   token id is read *)
TokenIds == {WordOr(type_id, Uint(k)) : type_id \in DOMAIN creators, k \in 0..1}

TokenIdsFor(sender, type_id) ==
    IF creatorOnly(type_id, sender) THEN TokenIds ELSE {Word(TRUE, 1, 1)}

URIs == {"uri", ""}

SetNonFungibleURI ==
    /\ \E sender \in Senders, type_id \in TypeIds :
           \E token \in TokenIdsFor(sender, type_id), tokenUri \in URIs :
               setNonFungibleURI(sender, type_id, token, tokenUri)
    /\ ContractUnchanged

UriNext == Create \/ MintNonFungibleWithURI \/ SetNonFungibleURI

SpecUri == ContractInit /\ [][UriNext]_vars

-----------------------------------------------------------------------------
(* The operations of TokensService, one action per await.  A transport
   request and the continuation that consumes its response are one step of
   the invocation that awaits it; the four requests of activatePool settle
   one by one, and Promise.all settles the invocation. *)

Topic(call) == topicName(topicPrefix, call.namespace)

Live(c) == c \in 1..Len(calls) /\ ~Returned(calls[c]) /\ ~Failed(calls[c])

(* init, migrationCheck and activatePool are called *)
init(namespace) ==
    /\ Len(calls) < MaxCalls
    /\ calls' = Append(calls, NewCall("init", namespace, Undefined, "getStreams"))
    /\ UNCHANGED <<streams, subscriptions, stream, failures>>

migrationCheck(namespace) ==
    /\ Len(calls) < MaxCalls
    /\ calls' = Append(calls, NewCall("migrationCheck", namespace, Undefined, "getStreams"))
    /\ UNCHANGED <<streams, subscriptions, stream, failures>>

activatePool(namespace, poolLocator) ==
    /\ Len(calls) < MaxCalls
    /\ calls' = Append(calls, NewCall("activatePool", namespace, poolLocator, "getStream"))
    /\ UNCHANGED <<streams, subscriptions, stream, failures>>

(* a plausible slip: init gives up when the check reports drift *)
AfterMigrationCheck_driftThrows(call, result) ==
    IF call.op = "init"
    THEN [call EXCEPT !.drift = result, !.pc = IF result THEN "failed" ELSE "getStream"]
    ELSE [call EXCEPT !.drift = result, !.pc = "returned"]

(* where an invocation goes when migrationCheck returns *)
AfterMigrationCheck(call, result) ==
    IF call.op = "init"
    THEN [call EXCEPT !.drift = result, !.pc = "getStream"]
    ELSE [call EXCEPT !.drift = result, !.pc = "returned"]

(* migrationCheck: the listing of the streams arrives *)
GetStreamsReturns(c) ==
    /\ Live(c) /\ calls[c].pc = "getStreams"
    /\ LET existingStream == LocateStream(streams, Topic(calls[c]))
       IN  IF existingStream = UndefinedStream
           THEN /\ calls' = [calls EXCEPT ![c] = AfterMigrationCheck(@, FALSE)]
                /\ UNCHANGED stream
           ELSE /\ stream' = [stream EXCEPT ![Topic(calls[c])] = existingStream]
                /\ calls' = [calls EXCEPT ![c] =
                                [@ EXCEPT !.existingStream = existingStream,
                                          !.pc = "getSubscriptions"]]
    /\ UNCHANGED <<streams, subscriptions, failures>>

(* a plausible slip: the check removes the subscriptions it cannot parse *)
GetSubscriptionsReturns_removesUnparseable(c) ==
    /\ Live(c) /\ calls[c].pc = "getSubscriptions"
    /\ calls' = [calls EXCEPT ![c] =
                    AfterMigrationCheck(@, CheckSubscriptions(calls[c].existingStream,
                                        getSubscriptions(subscriptions), Topic(calls[c])))]
    /\ LET kept == {s \in BagToSet(subscriptions) :
                        unpackSubscriptionName(s.name).poolLocator # Undefined}
       IN  subscriptions' = [s \in kept |-> CopiesIn(s, subscriptions)]
    /\ UNCHANGED <<streams, stream, failures>>

(* migrationCheck: the listing of the subscriptions arrives *)
GetSubscriptionsReturns(c) ==
    /\ Live(c) /\ calls[c].pc = "getSubscriptions"
    /\ calls' = [calls EXCEPT ![c] =
                    AfterMigrationCheck(@, CheckSubscriptions(calls[c].existingStream,
                                        getSubscriptions(subscriptions), Topic(calls[c])))]
    /\ UNCHANGED <<streams, subscriptions, stream, failures>>

(* getStream: the look-up in the cache *)
GetStream(c) ==
    /\ Live(c) /\ calls[c].pc = "getStream"
    /\ calls' = [calls EXCEPT ![c] =
                    IF stream[Topic(@)] # UndefinedStream
                    THEN AfterGetStream(@, stream[Topic(@)])
                    ELSE [@ EXCEPT !.pc = "createOrUpdateStream"]]
    /\ UNCHANGED <<streams, subscriptions, stream, failures>>

(* getStream: the transport returns the stream it created or fetched *)
CreateOrUpdateStreamReturns(c) ==
    /\ Live(c) /\ calls[c].pc = "createOrUpdateStream"
    /\ LET name == packStreamName(Topic(calls[c]), instancePath)
       IN  /\ streams' = createOrUpdateStream(streams, name)
           /\ stream' = [stream EXCEPT ![Topic(calls[c])] = FindStream(streams', name)]
           /\ calls' = [calls EXCEPT ![c] = AfterGetStream(@, FindStream(streams', name))]
    /\ UNCHANGED <<subscriptions, failures>>

(* init: the transport returns the base subscription *)
BaseSubscriptionReturns(c) ==
    /\ Live(c) /\ calls[c].pc = "getOrCreateSubscription"
    /\ subscriptions' = getOrCreateSubscription(subscriptions, calls[c].streamUsed.id,
                            tokenCreateEvent, BaseSubscription(Topic(calls[c])), Undefined)
    /\ calls' = [calls EXCEPT ![c] = [@ EXCEPT !.pc = "returned"]]
    /\ UNCHANGED <<streams, stream, failures>>

(* a transport request that an invocation awaits alone fails: the invocation
   throws *)
RequestFails(c) ==
    /\ Live(c)
    /\ calls[c].pc \in {"getStreams", "getSubscriptions", "createOrUpdateStream",
                        "getOrCreateSubscription"}
    /\ failures < MaxFailures
    /\ failures' = failures + 1
    /\ calls' = [calls EXCEPT ![c] = [@ EXCEPT !.pc = "failed"]]
    /\ UNCHANGED <<streams, subscriptions, stream>>

(* a plausible slip: the subscription of the stream for the event is replaced *)
SubscriptionCreated_replaces(c, k) ==
    /\ c \in 1..Len(calls) /\ k \in 1..Len(calls[c].reqs)
    /\ calls[c].reqs[k].status = "pending"
    /\ LET r == calls[c].reqs[k]
           others == {s \in BagToSet(subscriptions) : s.stream # r.stream \/ s.event # r.event}
       IN  subscriptions' = getOrCreateSubscription([s \in others |-> CopiesIn(s, subscriptions)],
                                                    r.stream, r.event, r.name, r.fromBlock)
    /\ calls' = [calls EXCEPT ![c] = [@ EXCEPT !.reqs[k].status = "fulfilled"]]
    /\ UNCHANGED <<streams, stream, failures>>

(* activatePool: one of the four requests is served by the transport.  The
   requests were all issued before the await, so they are served whether or
   not the invocation has failed in the meantime. *)
SubscriptionCreated(c, k) ==
    /\ c \in 1..Len(calls) /\ k \in 1..Len(calls[c].reqs)
    /\ calls[c].reqs[k].status = "pending"
    /\ LET r == calls[c].reqs[k]
       IN  subscriptions' = getOrCreateSubscription(subscriptions, r.stream, r.event,
                                                    r.name, r.fromBlock)
    /\ calls' = [calls EXCEPT ![c] = [@ EXCEPT !.reqs[k].status = "fulfilled"]]
    /\ UNCHANGED <<streams, stream, failures>>

SubscriptionFails(c, k) ==
    /\ c \in 1..Len(calls) /\ k \in 1..Len(calls[c].reqs)
    /\ calls[c].reqs[k].status = "pending"
    /\ failures < MaxFailures
    /\ failures' = failures + 1
    /\ calls' = [calls EXCEPT ![c] = [@ EXCEPT !.reqs[k].status = "rejected"]]
    /\ UNCHANGED <<streams, subscriptions, stream>>

(* a plausible slip: the join resumes with the first request that settles *)
PromiseAll_firstSettled(reqs) ==
    IF \E k \in 1..Len(reqs) : reqs[k].status = "rejected" THEN "rejected"
    ELSE IF \E k \in 1..Len(reqs) : reqs[k].status = "fulfilled" THEN "fulfilled"
    ELSE "pending"

(* Promise.all: rejected as soon as one request is, fulfilled when all are *)
PromiseAll(reqs) ==
    IF \E k \in 1..Len(reqs) : reqs[k].status = "rejected" THEN "rejected"
    ELSE IF \A k \in 1..Len(reqs) : reqs[k].status = "fulfilled" THEN "fulfilled"
    ELSE "pending"

(* activatePool: the await of Promise.all resumes *)
PromiseAllSettles(c) ==
    /\ Live(c) /\ calls[c].pc = "Promise.all"
    /\ PromiseAll(calls[c].reqs) # "pending"
    /\ calls' = [calls EXCEPT ![c] =
                    [@ EXCEPT !.pc = IF PromiseAll(calls[c].reqs) = "fulfilled"
                                     THEN "returned" ELSE "failed"]]
    /\ UNCHANGED <<streams, subscriptions, stream, failures>>

(* The transport as the service may find it: no stream yet, the stream of
   the current scheme, or streams left by older versions *)
CurrentStreamName == packStreamName(topicName(topicPrefix, <<"ns1">>), instancePath)
OldStreamName == packStreamName(topicPrefix, instancePath)

StreamListings ==
    {<<>>, <<CurrentStreamName>>, <<topicPrefix>>, <<OldStreamName>>,
     <<OldStreamName, CurrentStreamName>>, <<<<"other">>, topicPrefix>>}

StreamsOf(listing) == [i \in 1..Len(listing) |-> [id |-> i, name |-> listing[i]]]

PoolLocators == {packPoolLocator(<<"F", "1">>, Undefined), packPoolLocator(<<"N", "1">>, <<"5">>)}

ServiceInit ==
    /\ \E listing \in StreamListings : streams = StreamsOf(listing)
    /\ subscriptions = EmptyBag
    /\ stream = [t \in Topics |-> UndefinedStream]
    /\ calls = <<>>
    /\ failures = 0

ServiceSpecInit == ServiceInit /\ CodecIdle /\ ListenerIdle

(* init and activatePool, called in any order and overlapping *)
ServiceNext ==
    \/ \E n \in Namespaces : init(n) /\ UNCHANGED <<codecVars, listenerVars>>
    \/ \E n \in Namespaces, l \in PoolLocators :
            activatePool(n, l) /\ UNCHANGED <<codecVars, listenerVars>>
    \/ \E c \in 1..MaxCalls : GetStreamsReturns(c) /\ UNCHANGED <<codecVars, listenerVars>>
    \/ \E c \in 1..MaxCalls : GetSubscriptionsReturns(c) /\ UNCHANGED <<codecVars, listenerVars>>
    \/ \E c \in 1..MaxCalls : GetStream(c) /\ UNCHANGED <<codecVars, listenerVars>>
    \/ \E c \in 1..MaxCalls : CreateOrUpdateStreamReturns(c) /\ UNCHANGED <<codecVars, listenerVars>>
    \/ \E c \in 1..MaxCalls : BaseSubscriptionReturns(c) /\ UNCHANGED <<codecVars, listenerVars>>
    \/ \E c \in 1..MaxCalls : RequestFails(c) /\ UNCHANGED <<codecVars, listenerVars>>
    \/ \E c \in 1..MaxCalls, k \in 1..4 :
            SubscriptionCreated(c, k) /\ UNCHANGED <<codecVars, listenerVars>>
    \/ \E c \in 1..MaxCalls, k \in 1..4 :
            SubscriptionFails(c, k) /\ UNCHANGED <<codecVars, listenerVars>>
    \/ \E c \in 1..MaxCalls : PromiseAllSettles(c) /\ UNCHANGED <<codecVars, listenerVars>>

SpecService == ServiceSpecInit /\ [][ServiceNext]_vars

(* activatePool alone: attempts and retries *)
ActivationInit ==
    /\ \E listing \in {<<>>, <<OldStreamName, CurrentStreamName>>} :
            streams = StreamsOf(listing)
    /\ subscriptions = EmptyBag
    /\ stream = [t \in Topics |-> UndefinedStream]
    /\ calls = <<>>
    /\ failures = 0
    /\ CodecIdle /\ ListenerIdle

(* the caller calls again once its previous call has returned or failed,
   whether or not the requests of a failed call have all been served *)
NoCallInProgress == \A c \in 1..Len(calls) : Returned(calls[c]) \/ Failed(calls[c])

ActivationNext ==
    \/ \E n \in Namespaces, l \in PoolLocators :
            NoCallInProgress /\ activatePool(n, l) /\ UNCHANGED <<codecVars, listenerVars>>
    \/ \E c \in 1..MaxCalls : GetStream(c) /\ UNCHANGED <<codecVars, listenerVars>>
    \/ \E c \in 1..MaxCalls : CreateOrUpdateStreamReturns(c) /\ UNCHANGED <<codecVars, listenerVars>>
    \/ \E c \in 1..MaxCalls : RequestFails(c) /\ UNCHANGED <<codecVars, listenerVars>>
    \/ \E c \in 1..MaxCalls, k \in 1..4 :
            SubscriptionCreated(c, k) /\ UNCHANGED <<codecVars, listenerVars>>
    \/ \E c \in 1..MaxCalls, k \in 1..4 :
            SubscriptionFails(c, k) /\ UNCHANGED <<codecVars, listenerVars>>
    \/ \E c \in 1..MaxCalls : PromiseAllSettles(c) /\ UNCHANGED <<codecVars, listenerVars>>

SpecActivation == ActivationInit /\ [][ActivationNext]_vars

(* init alone, called any number of times, the calls overlapping *)
InitInit == ServiceInit /\ CodecIdle /\ ListenerIdle

InitNext ==
    \/ \E n \in Namespaces : init(n) /\ UNCHANGED <<codecVars, listenerVars>>
    \/ \E c \in 1..MaxCalls : GetStreamsReturns(c) /\ UNCHANGED <<codecVars, listenerVars>>
    \/ \E c \in 1..MaxCalls : GetSubscriptionsReturns(c) /\ UNCHANGED <<codecVars, listenerVars>>
    \/ \E c \in 1..MaxCalls : GetStream(c) /\ UNCHANGED <<codecVars, listenerVars>>
    \/ \E c \in 1..MaxCalls : CreateOrUpdateStreamReturns(c) /\ UNCHANGED <<codecVars, listenerVars>>
    \/ \E c \in 1..MaxCalls : BaseSubscriptionReturns(c) /\ UNCHANGED <<codecVars, listenerVars>>
    \/ \E c \in 1..MaxCalls : RequestFails(c) /\ UNCHANGED <<codecVars, listenerVars>>

SpecInit == InitInit /\ [][InitNext]_vars

(* migrationCheck alone, over the subscriptions a transport may hold: those
   of two pools, complete or not, the base subscription, a name of an older
   scheme, a subscription of another instance, one of an unknown event, one
   under another stream, and one held twice *)
MaxSubs == 5

MigrationScope == Scope(topicName(topicPrefix, <<"ns1">>), instancePath)

Subscription(scope, poolLocator, eventName, streamId) ==
    [name |-> packSubscriptionName(scope, poolLocator, eventName, Undefined),
     stream |-> streamId, event |-> eventName, fromBlock |-> <<"0">>]

PoolF1 == packPoolLocator(<<"F", "1">>, Undefined)
PoolN1 == packPoolLocator(<<"N", "1">>, <<"5">>)

FoundSubscriptions ==
    {Subscription(MigrationScope, PoolF1, ALL_SUBSCRIBED_EVENTS[i], 1) : i \in 1..4}
    \cup {Subscription(MigrationScope, BASE_SUBSCRIPTION_NAME, tokenCreateEvent, 1),
          Subscription(MigrationScope, PoolN1, transferSingleEvent, 1),
          Subscription(<<"tokens_ns1", "/", "other">>, PoolF1, transferSingleEvent, 1),
          Subscription(MigrationScope, PoolF1, <<"URI">>, 1),
          Subscription(MigrationScope, PoolF1, tokenCreateEvent, 2),
          [name |-> <<"tokens", NameDelim, "old">>, stream |-> 1,
           event |-> transferSingleEvent, fromBlock |-> <<"0">>]}

HeldTwice == {Subscription(MigrationScope, PoolF1, transferSingleEvent, 1)}

MigrationInit ==
    /\ \E listing \in {<<>>, <<CurrentStreamName>>, <<OldStreamName>>,
                       <<OldStreamName, CurrentStreamName>>} :
            streams = StreamsOf(listing)
    /\ \E found \in SUBSET FoundSubscriptions :
        /\ Cardinality(found) <= MaxSubs
        /\ \E twice \in SUBSET (found \cap HeldTwice) :
                subscriptions = SetToBag(found) (+) SetToBag(twice)
    /\ stream = [t \in Topics |-> UndefinedStream]
    /\ calls = <<>>
    /\ failures = 0
    /\ CodecIdle /\ ListenerIdle

MigrationNext ==
    \/ \E n \in Namespaces :
            NoCallInProgress /\ migrationCheck(n) /\ UNCHANGED <<codecVars, listenerVars>>
    \/ \E c \in 1..MaxCalls : GetStreamsReturns(c) /\ UNCHANGED <<codecVars, listenerVars>>
    \/ \E c \in 1..MaxCalls : GetSubscriptionsReturns(c) /\ UNCHANGED <<codecVars, listenerVars>>
    \/ \E c \in 1..MaxCalls : RequestFails(c) /\ UNCHANGED <<codecVars, listenerVars>>

SpecMigration == MigrationInit /\ [][MigrationNext]_vars

(* init called, and called again, on a transport that holds the streams and
   subscriptions of earlier runs *)
StartupInit == MigrationInit

StartupNext ==
    \/ \E n \in Namespaces :
            NoCallInProgress /\ init(n) /\ UNCHANGED <<codecVars, listenerVars>>
    \/ \E c \in 1..MaxCalls : GetStreamsReturns(c) /\ UNCHANGED <<codecVars, listenerVars>>
    \/ \E c \in 1..MaxCalls : GetSubscriptionsReturns(c) /\ UNCHANGED <<codecVars, listenerVars>>
    \/ \E c \in 1..MaxCalls : GetStream(c) /\ UNCHANGED <<codecVars, listenerVars>>
    \/ \E c \in 1..MaxCalls : CreateOrUpdateStreamReturns(c) /\ UNCHANGED <<codecVars, listenerVars>>
    \/ \E c \in 1..MaxCalls : BaseSubscriptionReturns(c) /\ UNCHANGED <<codecVars, listenerVars>>
    \/ \E c \in 1..MaxCalls : RequestFails(c) /\ UNCHANGED <<codecVars, listenerVars>>

SpecStartup == StartupInit /\ [][StartupNext]_vars

(* init, migrationCheck and activatePool called one after the other, in any
   order, on a transport that holds nothing yet *)
SequenceInit ==
    /\ streams = <<>>
    /\ subscriptions = EmptyBag
    /\ stream = [t \in Topics |-> UndefinedStream]
    /\ calls = <<>>
    /\ failures = 0
    /\ CodecIdle /\ ListenerIdle

SequenceNext ==
    \/ \E n \in Namespaces :
            NoCallInProgress /\ init(n) /\ UNCHANGED <<codecVars, listenerVars>>
    \/ \E n \in Namespaces :
            NoCallInProgress /\ migrationCheck(n) /\ UNCHANGED <<codecVars, listenerVars>>
    \/ \E n \in Namespaces, l \in PoolLocators :
            NoCallInProgress /\ activatePool(n, l) /\ UNCHANGED <<codecVars, listenerVars>>
    \/ \E c \in 1..MaxCalls : GetStreamsReturns(c) /\ UNCHANGED <<codecVars, listenerVars>>
    \/ \E c \in 1..MaxCalls : GetSubscriptionsReturns(c) /\ UNCHANGED <<codecVars, listenerVars>>
    \/ \E c \in 1..MaxCalls : GetStream(c) /\ UNCHANGED <<codecVars, listenerVars>>
    \/ \E c \in 1..MaxCalls : CreateOrUpdateStreamReturns(c) /\ UNCHANGED <<codecVars, listenerVars>>
    \/ \E c \in 1..MaxCalls : BaseSubscriptionReturns(c) /\ UNCHANGED <<codecVars, listenerVars>>
    \/ \E c \in 1..MaxCalls : RequestFails(c) /\ UNCHANGED <<codecVars, listenerVars>>
    \/ \E c \in 1..MaxCalls, k \in 1..4 :
            SubscriptionCreated(c, k) /\ UNCHANGED <<codecVars, listenerVars>>
    \/ \E c \in 1..MaxCalls, k \in 1..4 :
            SubscriptionFails(c, k) /\ UNCHANGED <<codecVars, listenerVars>>
    \/ \E c \in 1..MaxCalls : PromiseAllSettles(c) /\ UNCHANGED <<codecVars, listenerVars>>

SpecSequence == SequenceInit /\ [][SequenceNext]_vars

-----------------------------------------------------------------------------
(* The later TokensService, which names the base subscription after the
   contract address and the subscriptions of a pool after the instance path
   and the pool data.  Its operations are called one after the other, every
   request to the transport is served, and nobody else writes to the
   transport.  The service has one topic and one cached stream. *)

MaxOps == 4

LaterTopic == topicName(topicPrefix, <<"ns1">>)

(* this.contractAddress, as configured *)
contractAddress == <<"0x", "c", "0">>

(* the name createPoolSubscription gives the subscription for an address *)
CreatePoolSubscriptionName(address) ==
    packSubscriptionName(address, BASE_SUBSCRIPTION_NAME, tokenCreateEvent, Undefined)

(* the name migrationCheck skips *)
SkippedBaseSubscription ==
    packSubscriptionName(instancePath, BASE_SUBSCRIPTION_NAME, tokenCreateEvent, Undefined)

(* migrationCheck up to this.stream = existingStream *)
LaterLocateStream(ss) ==
    LET current == FindStream(ss, packStreamName(LaterTopic, instancePath))
    IN  IF current # UndefinedStream THEN current ELSE FindStream(ss, LaterTopic)

(* the key migrationCheck groups a subscription name under *)
KeyOf(name) ==
    LET parts == unpackSubscriptionName(name)
    IN  packSubscriptionName(parts.scope, parts.poolLocator, <<>>, parts.poolData)

(* the loop over the subscriptions of the stream: the events found under
   each key, in the order of the listing, or unparseable when a name that is
   not skipped does not unpack *)
GroupByKey(subs) ==
    LET kept == SelectSeq(subs, LAMBDA s : s.name # SkippedBaseSubscription)
        Unparseable(s) ==
            \/ unpackSubscriptionName(s.name).poolLocator = Undefined
            \/ unpackSubscriptionName(s.name).event = Undefined
        EventsOf(key) ==
            LET under == SelectSeq(kept, LAMBDA s : KeyOf(s.name) = key)
            IN  [i \in 1..Len(under) |-> unpackSubscriptionName(under[i].name).event]
    IN  IF \E i \in 1..Len(kept) : Unparseable(kept[i])
        THEN [unparseable |-> TRUE, foundEvents |-> <<>>]
        ELSE [unparseable |-> FALSE,
              foundEvents |-> [key \in {KeyOf(kept[i].name) : i \in 1..Len(kept)} |->
                                  EventsOf(key)]]

(* migrationCheck: the stream it caches and the boolean it returns *)
LaterMigrationCheck(ss, subs, cached) ==
    LET existingStream == LaterLocateStream(ss)
        mine == SelectSeq(getSubscriptions(subs), LAMBDA s : s.stream = existingStream.id)
        g == GroupByKey(mine)
    IN  IF existingStream = UndefinedStream THEN [stream |-> cached, drift |-> FALSE]
        ELSE [stream |-> existingStream,
              drift |-> IF Len(mine) = 0 THEN FALSE
                        ELSE IF g.unparseable THEN TRUE
                        ELSE \E l \in DOMAIN g.foundEvents :
                                IncompleteGroup(g.foundEvents[l])]

(* An invocation of an operation of the service: the operation, its
   arguments, the await it stands at, and what it returned.  The operations
   are called one after the other: the invocation in progress is the last. *)
Op(op, poolLocator, poolData, pc) ==
    [op |-> op, poolLocator |-> poolLocator, poolData |-> poolData, pc |-> pc,
     result |-> Undefined, address |-> Undefined, blockNumber |-> Undefined, sent |-> <<>>]

(* what a call that returns a boolean returned *)
Boolean(b) == IF b THEN <<"true">> ELSE <<"false">>

Current == calls[Len(calls)]

NoneInProgress == calls = <<>> \/ Current.pc \in {"returned", "failed"}

Step(call) == [calls EXCEPT ![Len(calls)] = call]

LaterUnchanged == UNCHANGED <<codecVars, listenerVars, failures>>

(* getStream, up to its first await: migrationCheck when no stream is
   cached; the cached stream is returned as it is *)
GetStreamEntry ==
    IF stream[LaterTopic] = UndefinedStream THEN "migrationCheck"
    ELSE "getOrCreateSubscription"

LaterPoolData == {Undefined, <<"d", "1">>}

Activated == {calls[k].poolLocator : k \in {j \in 1..Len(calls) : calls[j].op = "activatePool"}}

(* init(): createPoolSubscription(await getContractAddress()), which begins
   with getStream *)
LaterInit ==
    /\ calls = <<>>
    /\ calls' = <<Op("init", Undefined, Undefined, GetStreamEntry)>>
    /\ UNCHANGED <<streams, subscriptions, stream>>
    /\ LaterUnchanged

(* activatePool(dto) for a pool locator not activated before, which begins
   with getStream *)
LaterActivatePool ==
    /\ calls # <<>> /\ NoneInProgress
    /\ Len(calls) < MaxOps
    /\ \E l \in PoolLocators \ Activated, poolData \in LaterPoolData :
          calls' = Append(calls, Op("activatePool", l, poolData, GetStreamEntry))
    /\ UNCHANGED <<streams, subscriptions, stream>>
    /\ LaterUnchanged

(* migrationCheck(), called on its own *)
LaterCheck ==
    /\ calls # <<>> /\ NoneInProgress
    /\ Len(calls) < MaxOps
    /\ calls' = Append(calls, Op("migrationCheck", Undefined, Undefined, "migrationCheck"))
    /\ UNCHANGED <<streams, subscriptions, stream>>
    /\ LaterUnchanged

(* the addresses a createPool request names in its config: none, the empty
   string, and an address other than the configured one *)
ConfigAddresses == {Undefined, <<>>, <<"0x", "d", "1">>}

(* a plausible slip: the pool-creation subscription is left to init *)
CreatePoolEntry_noSubscription(address, getStreamEntry) == "sendTransaction"

(* createPool, up to its first await: with an address in the config the
   subscription to the pool creations of that address comes first *)
CreatePoolEntry(address, getStreamEntry) ==
    IF address # Undefined /\ address # <<>> THEN getStreamEntry ELSE "sendTransaction"

(* createPool(dto) *)
LaterCreatePool ==
    /\ calls # <<>> /\ NoneInProgress
    /\ Len(calls) < MaxOps
    /\ \E address \in ConfigAddresses, blockNumber \in {Undefined, <<"5">>} :
          /\ address \in {Undefined, <<>>} => blockNumber = Undefined
          /\ calls' = Append(calls,
                 [Op("createPool", Undefined, Undefined,
                     CreatePoolEntry(address, GetStreamEntry))
                    EXCEPT !.address = address, !.blockNumber = blockNumber])
    /\ UNCHANGED <<streams, subscriptions, stream>>
    /\ LaterUnchanged

(* migrationCheck runs to its return: on its own its result is returned,
   within getStream it is dropped *)
MigrationCheckReturns ==
    /\ calls # <<>> /\ Current.pc = "migrationCheck"
    /\ LET checked == LaterMigrationCheck(streams, subscriptions, stream[LaterTopic]) IN
       /\ stream' = [stream EXCEPT ![LaterTopic] = checked.stream]
       /\ calls' = Step(IF Current.op = "migrationCheck"
                        THEN [Current EXCEPT !.pc = "returned",
                                             !.result = Boolean(checked.drift)]
                        ELSE [Current EXCEPT !.pc = "createOrUpdateStream"])
    /\ UNCHANGED <<streams, subscriptions>>
    /\ LaterUnchanged

(* getStream: this.stream = await createOrUpdateStream(name, name) *)
StreamEnsured ==
    /\ calls # <<>> /\ Current.pc = "createOrUpdateStream"
    /\ LET name == IF stream[LaterTopic] # UndefinedStream THEN stream[LaterTopic].name
                   ELSE packStreamName(LaterTopic, instancePath)
           made == createOrUpdateStream(streams, name)
       IN  /\ streams' = made
           /\ stream' = [stream EXCEPT ![LaterTopic] = FindStream(made, name)]
    /\ calls' = Step([Current EXCEPT !.pc = "getOrCreateSubscription"])
    /\ UNCHANGED subscriptions
    /\ LaterUnchanged

(* the requests of activatePool, all served *)
RECURSIVE AllCreated(_, _, _)
AllCreated(subs, reqs, i) ==
    IF i > Len(reqs) THEN subs
    ELSE AllCreated(getOrCreateSubscription(subs, reqs[i].stream, reqs[i].event,
                                            reqs[i].name, reqs[i].fromBlock),
                    reqs, i + 1)

LaterActivationRequests(streamId, dtoPoolLocator, poolData) ==
    LET poolLocator == unpackPoolLocator(dtoPoolLocator)
        Request(eventName, fromBlock) ==
            [stream |-> streamId, event |-> eventName,
             name |-> packSubscriptionName(instancePath, dtoPoolLocator, eventName, poolData),
             fromBlock |-> fromBlock]
    IN  <<Request(tokenCreateEvent, OrZero(poolLocator.blockNumber)),
          Request(transferSingleEvent, OrZero(poolLocator.blockNumber)),
          Request(transferBatchEvent, OrZero(poolLocator.blockNumber)),
          Request(approvalForAllEvent, <<"0">>)>>

(* createPoolSubscription: the subscription to the pool creations of an address *)
createPoolSubscription(subs, streamId, address, blockNumber) ==
    getOrCreateSubscription(subs, streamId, tokenCreateEvent,
                            CreatePoolSubscriptionName(address), OrZero(blockNumber))

(* the subscription requests of init, of createPool and of activatePool are
   served *)
Subscribed ==
    /\ calls # <<>> /\ Current.pc = "getOrCreateSubscription"
    /\ subscriptions' =
          IF Current.op = "init"
          THEN createPoolSubscription(subscriptions, stream[LaterTopic].id,
                                      contractAddress, Undefined)
          ELSE IF Current.op = "createPool"
          THEN createPoolSubscription(subscriptions, stream[LaterTopic].id,
                                      Current.address, Current.blockNumber)
          ELSE AllCreated(subscriptions,
                          LaterActivationRequests(stream[LaterTopic].id, Current.poolLocator,
                                                  Current.poolData), 1)
    /\ calls' = Step([Current EXCEPT !.pc = IF Current.op = "createPool"
                                            THEN "sendTransaction" ELSE "returned"])
    /\ UNCHANGED <<streams, stream>>
    /\ LaterUnchanged

(* the subscription request of createPoolSubscription is refused: the await
   throws and createPool ends there *)
SubscriptionRefused ==
    /\ calls # <<>> /\ Current.pc = "getOrCreateSubscription"
    /\ Current.op = "createPool"
    /\ calls' = Step([Current EXCEPT !.pc = "failed"])
    /\ UNCHANGED <<streams, subscriptions, stream>>
    /\ LaterUnchanged

(* createWithAddress: the create transaction is sent to the address of the
   config, or to the configured address when the config has none *)
SendTransaction ==
    /\ calls # <<>> /\ Current.pc = "sendTransaction"
    /\ LET address == IF Current.address # Undefined /\ Current.address # <<>>
                      THEN Current.address ELSE contractAddress
       IN  calls' = Step([Current EXCEPT !.pc = "returned",
                                         !.sent = <<[to |-> address, method |-> "create"]>>,
                                         !.result = <<"id">>])
    /\ UNCHANGED <<streams, subscriptions, stream>>
    /\ LaterUnchanged

(* the transport before the service first runs: empty, or holding the stream
   of the topic alone *)
LaterStart ==
    /\ \E listing \in {<<>>, <<LaterTopic>>} : streams = StreamsOf(listing)
    /\ subscriptions = EmptyBag
    /\ stream = [t \in Topics |-> UndefinedStream]
    /\ calls = <<>>
    /\ failures = 0
    /\ CodecIdle /\ ListenerIdle

LaterNext ==
    \/ LaterInit \/ LaterActivatePool \/ LaterCheck \/ LaterCreatePool
    \/ MigrationCheckReturns \/ StreamEnsured \/ Subscribed
    \/ SubscriptionRefused \/ SendTransaction

SpecLater == LaterStart /\ [][LaterNext]_vars


-----------------------------------------------------------------------------
(* Arithmetic used only to state what the codec should compute: powers of two
   by repeated doubling, products by repeated addition of doubled terms. *)

RECURSIVE Doubled(_, _)
Doubled(x, times) ==
    IF times = 0 THEN x
    ELSE LET d == Add(x, x)
         IN  IF Len(d) >= 0 THEN Doubled(d, times - 1) ELSE d

(* x * 2^n, sixteen doublings at a time *)
RECURSIVE TimesPow2(_, _)
TimesPow2(x, n) ==
    IF n < 16 THEN Doubled(x, n)
    ELSE LET d == Doubled(x, 16)
         IN  IF Len(d) >= 0 THEN TimesPow2(d, n - 16) ELSE d

Str(digits) == [i \in 1..Len(digits) |-> DigitChars[digits[i] + 1]]

IndexGiven == IF token_index = Undefined THEN <<"0">> ELSE token_index

(* C4: unpackTokenId(packTokenId(tag+sequence, index)) gives back
   isFungible = (tag = F), poolId = tag+sequence and tokenIndex = index, for a
   sequence below 2^127 and an index below 2^128. *)
C4_RoundTrip ==
    cpc = "unpacked" =>
        /\ unpacked.isFungible = (pool_id[1] = "F")
        /\ unpacked.poolId = pool_id
        /\ unpacked.tokenIndex = IndexGiven

C4_Witness ==
    /\ cpc = "unpacked"
    /\ pool_id = <<"N">> \o ToDec(AllOnes(127))
    /\ token_index = ToDec(AllOnes(128))
    /\ unpacked.poolId = pool_id

(* C5: packTokenId(tag+sequence, index) is the decimal numeral of
   flag*2^255 + sequence*2^128 + index, flag 0 for F and 1 for N, the index 0
   when left out; packTokenId("F1") is 2^128 and packTokenId("N1") is
   2^255 + 2^128, the numerals of the end-to-end test. *)
C5_PackValue ==
    cpc # "start" =>
        /\ id = ToDec(Add(Add(IF pool_id[1] = "F" THEN Zero ELSE TimesPow2(One, 255),
                              TimesPow2(ParseDec(substr1(pool_id)), 128)),
                          ParseDec(IndexGiven)))
        /\ (pool_id = <<"F", "1">> /\ token_index = Undefined) =>
             id = Str(<<3,4,0,2,8,2,3,6,6,9,2,0,9,3,8,4,6,3,4,6,3,3,7,4,6,0,7,4,3,1,
                        7,6,8,2,1,1,4,5,6>>)
        /\ (pool_id = <<"N", "1">> /\ IndexGiven = <<"0">>) =>
             id = Str(<<5,7,8,9,6,0,4,4,6,1,8,6,5,8,0,9,7,7,1,1,7,8,5,4,9,2,5,0,4,3,
                        4,3,9,5,3,9,2,6,9,7,5,2,7,4,6,9,9,7,4,1,2,2,0,4,8,3,1,9,2,1,
                        6,6,6,1,1,3,8,8,3,3,3,0,3,1,4,2,4>>)

C5_Witness ==
    /\ cpc = "packed"
    /\ pool_id = <<"N", "1">>
    /\ token_index = Undefined
    /\ Len(id) = 77

-----------------------------------------------------------------------------
(* Claims about the listener *)

(* the last delivery came through a pool's subscription *)
FromPoolSubscription == ~Idle /\ origin.sub.kind = "pool"

(* the members of the last delivery whose token belongs to the subscribing pool *)
OwnMembers ==
    {i \in 1..Len(origin.tokens) :
        FromPoolSubscription /\ origin.tokens[i].pool = origin.sub.pool}

Degenerate == event.data.from = ZERO_ADDRESS /\ event.data.to = ZERO_ADDRESS

(* C1: a single-transfer event of a token of the subscribing pool yields no
   notification when from and to are both the zero address; otherwise exactly
   one: token-mint carrying to when from is the zero address, else token-burn
   carrying from when to is the zero address, else token-transfer carrying
   both. *)
C1_Classification ==
    (event.signature = transferSingleEventSignature /\ OwnMembers = {1}) =>
        IF Degenerate THEN Notifications = <<>>
        ELSE /\ Len(Notifications) = 1
             /\ LET m == Notifications[1]
                IN  IF event.data.from = ZERO_ADDRESS
                    THEN m.event = "token-mint" /\ m.to = event.data.to
                    ELSE IF event.data.to = ZERO_ADDRESS
                    THEN m.event = "token-burn" /\ m.from = event.data.from
                    ELSE /\ m.event = "token-transfer"
                         /\ m.from = event.data.from /\ m.to = event.data.to

C1_Witness ==
    /\ event.signature = transferSingleEventSignature
    /\ OwnMembers = {1}
    /\ event.data.from # ZERO_ADDRESS
    /\ event.data.to = ZERO_ADDRESS
    /\ Len(Notifications) = 1
    /\ Notifications[1].event = "token-burn"

(* the members of the sequence s at the positions in P, in order *)
RECURSIVE Pick(_, _, _)
Pick(s, P, i) ==
    IF i > Len(s) THEN <<>>
    ELSE (IF i \in P THEN <<s[i]>> ELSE <<>>) \o Pick(s, P, i + 1)

(* C2: every mint/burn/transfer notification carries the pool locator of the
   delivering subscription and the token index of a member whose token id
   belongs to that locator's pool, one notification per such member and in
   their order; members whose token id unpacks to another pool yield
   nothing. *)
C2_PoolMatch ==
    (~Idle) =>
        /\ \A k \in 1..Len(Notifications) :
              /\ FromPoolSubscription
              /\ Notifications[k].data.poolLocator
                    = packPoolLocator(origin.sub.pool, origin.sub.block)
        /\ [k \in 1..Len(Notifications) |-> Notifications[k].data.tokenIndex]
              = IF Degenerate THEN <<>>
                ELSE Pick([i \in 1..Len(origin.tokens) |-> origin.tokens[i].index],
                          OwnMembers, 1)

C2_Witness ==
    /\ event.signature = transferBatchEventSignature
    /\ Len(origin.tokens) = 2
    /\ OwnMembers = {2}
    /\ Len(Notifications) = 1

(* the identity of the log entry a batch is delivered from *)
BatchBaseId == <<"0", "0", "0", "0", "0", "0", "0", "0", "0", "0", "1", "2", "/", "0", "0", "0", "0", "0", "3", "/", "0", "0", "0", "0", "0", "4">>

SubIndexOf(m) == SubSeq(m.data.id, Len(BatchBaseId) + 2, Len(m.data.id))

(* C3: a batch-transfer event with N (id, amount) pairs yields at most N
   notifications; the id of each is the base identity, a '/', and six decimal
   digits, and no two notifications of the batch have the same six digits. *)
C3_BatchExpansion ==
    (event.signature = transferBatchEventSignature) =>
        /\ Len(Notifications) <= Len(event.data.ids)
        /\ \A k \in 1..Len(Notifications) :
              LET m == Notifications[k]
              IN  /\ Len(m.data.id) = Len(BatchBaseId) + 7
                  /\ SubSeq(m.data.id, 1, Len(BatchBaseId) + 1) = BatchBaseId \o <<"/">>
                  /\ IsNumeral(SubIndexOf(m))
                  /\ m.data.blockchainId = BatchBaseId
        /\ \A k, l \in 1..Len(Notifications) :
              k # l => SubIndexOf(Notifications[k]) # SubIndexOf(Notifications[l])

C3_Witness ==
    /\ event.signature = transferBatchEventSignature
    /\ Len(event.data.ids) = MaxBatch
    /\ Len(Notifications) = MaxBatch
    /\ SubIndexOf(Notifications[2]) = <<"0", "0", "0", "0", "0", "1">>

(* the notifications of non-fungible tokens: the ones that carry a URI *)
WithUri(N) == {k \in 1..Len(N) : N[k].data.uri # Undefined}

EmptyUri(N) == {k \in WithUri(N) : N[k].data.uri = <<>>}

(* the URI is the pattern with its {id} replaced by 64 hex digits *)
FromTemplate(uri, pattern) ==
    /\ pattern # Undefined
    /\ Len(uri) = Len(pattern) + 63
    /\ uri[1] = pattern[1] /\ uri[Len(uri)] = pattern[Len(pattern)]
    /\ \A i \in 1..Len(uri) : uri[i] # "{id}"

(* a delivery of transfers: what it queried, against what it emitted *)
QueriesOfDelivery ==
    /\ queries' > 0 =>
            /\ uriPattern = Undefined
            /\ \E i \in 1..Len(origin'.tokens) : origin'.tokens[i].pool[1] = "N"
    /\ uriPattern # Undefined =>
            /\ queries' = 0 /\ uriPattern' = uriPattern
            /\ \A k \in WithUri(Notifications') :
                    FromTemplate(Notifications'[k].data.uri, uriPattern)
    /\ queries' = Cardinality(EmptyUri(Notifications'))
                    + (IF uriPattern = Undefined /\ uriPattern' # Undefined THEN 1 ELSE 0)
    /\ \A k, l \in WithUri(Notifications') :
            k < l /\ Notifications'[k].data.uri # <<>>
                => FromTemplate(Notifications'[l].data.uri, uriPattern')

(* C14: the URI-template query is issued only while the cache is empty and a
   non-fungible token is handled; each query but the one that succeeds shows
   as a notification with an empty URI, and from the success on, in that
   delivery and in every later one, no query is issued and every non-fungible
   notification takes its URI from the cached template. *)
C14_QueryOnce ==
    [][IF Idle' THEN uriPattern' = uriPattern ELSE QueriesOfDelivery]_vars

(* a delivery of a non-fungible token served from a template that an earlier
   delivery cached *)
C14_Witness ==
    /\ ~Idle /\ queries = 0 /\ uriPattern = UriTemplate
    /\ \E k \in WithUri(Notifications) :
            FromTemplate(Notifications[k].data.uri, uriPattern)

(* the members of the last delivery that are emitted and are non-fungible *)
NonFungibleOwn ==
    IF Degenerate THEN {} ELSE {i \in OwnMembers : origin.tokens[i].pool[1] = "N"}

(* C15: when every URI query of a delivery failed, each non-fungible member
   is still emitted, with an empty URI, each of them having issued its own
   query, and the cache is left empty. *)
C15_FailureNotCached ==
    (~Idle /\ WithUri(Notifications) # {} /\ EmptyUri(Notifications) = WithUri(Notifications)) =>
        /\ uriPattern = Undefined
        /\ Cardinality(WithUri(Notifications)) = Cardinality(NonFungibleOwn)
        /\ queries = Cardinality(NonFungibleOwn)

(* a batch of two non-fungible members whose queries both failed *)
C15_Witness ==
    /\ event.signature = transferBatchEventSignature
    /\ queries = 2 /\ uriPattern = Undefined
    /\ Cardinality(EmptyUri(Notifications)) = 2

(* the identities of notifications, in their order *)
IdsOf(N) == [k \in 1..Len(N) |-> N[k].data.id]

(* the states a listener can be in when an entry is delivered again: fresh
   after a restart or with the template cached *)
ListenerStates == {Undefined, UriTemplate, uriPattern}

IsBatch == event.signature = transferBatchEventSignature

(* C18: the batch-transfer entry of the last delivery, delivered again through
   the same subscription to a listener in any state and with any number of
   its URI queries failing, gives as many notifications with the same
   identities, member by member. *)
C18_SameIdentities ==
    IsBatch =>
        \A pattern \in ListenerStates, fails \in 0..MaxBatch :
            IdsOf(transformTransferBatchEvent(subName, event, pattern, fails, UriTemplate).messages)
                = IdsOf(Notifications)

(* a batch of two non-fungible members whose queries both failed, which a
   listener with the template cached would have answered without a query *)
C18_Witness ==
    /\ IsBatch
    /\ Len(Notifications) = 2 /\ Cardinality(EmptyUri(Notifications)) = 2
    /\ uriPattern = Undefined
    /\ IdsOf(Notifications)[1] # IdsOf(Notifications)[2]

-----------------------------------------------------------------------------
(* The subscription manager *)

ExpectedKinds == {tokenCreateEvent, transferSingleEvent, transferBatchEvent, approvalForAllEvent}

(* the subscriptions the check of invocation c is about: those of the stream
   it located, the base subscription apart *)
NonBase(c) ==
    {s \in BagToSet(subscriptions) :
        /\ s.stream = calls[c].existingStream.id
        /\ s.name # BaseSubscription(Topic(calls[c]))}

Parseable(s) ==
    /\ unpackSubscriptionName(s.name).poolLocator # Undefined
    /\ unpackSubscriptionName(s.name).event # Undefined

(* the subscriptions of a set that a pool holds for an event kind *)
Held(S, poolLocator, kind) ==
    {s \in S : /\ unpackSubscriptionName(s.name).poolLocator = poolLocator
               /\ unpackSubscriptionName(s.name).event = kind}

ExactlyOne(S) == \E s \in S : S = {s} /\ CopiesIn(s, subscriptions) = 1

ExactlyTheFourKinds(S, poolLocator) ==
    /\ \A kind \in ExpectedKinds : ExactlyOne(Held(S, poolLocator, kind))
    /\ \A s \in S : unpackSubscriptionName(s.name).poolLocator = poolLocator
                        => unpackSubscriptionName(s.name).event \in ExpectedKinds

PoolsOf(S) == {unpackSubscriptionName(s.name).poolLocator : s \in S}

Checked(c) ==
    /\ calls[c].op = "migrationCheck" /\ Returned(calls[c])
    /\ calls[c].existingStream # UndefinedStream
    /\ NonBase(c) # {}

(* C6: for a located stream with at least one non-base subscription,
   migrationCheck returns drift exactly when some non-base subscription name of
   the stream does not parse, or some pool's subscriptions are not exactly one
   for each of TokenPoolCreation, TransferSingle, TransferBatch and
   ApprovalForAll; otherwise it returns no drift. *)
C6_DriftIff ==
    \A c \in 1..Len(calls) :
        Checked(c) =>
            (calls[c].drift <=>
                \/ \E s \in NonBase(c) : ~Parseable(s)
                \/ \E l \in PoolsOf(NonBase(c)) : ~ExactlyTheFourKinds(NonBase(c), l))

(* a check that reported drift for a duplicate alone: every name parses and
   every pool holds each of the four kinds *)
C6_Witness ==
    \E c \in 1..Len(calls) :
        /\ Checked(c) /\ calls[c].drift
        /\ \A s \in NonBase(c) : Parseable(s)
        /\ \A l \in PoolsOf(NonBase(c)), kind \in ExpectedKinds :
                Held(NonBase(c), l, kind) # {}

Activations == {c \in 1..Len(calls) : calls[c].op = "activatePool"}

Completed(c) == Returned(calls[c]) \/ Failed(calls[c])

Statuses(c) == {calls[c].reqs[k].status : k \in 1..Len(calls[c].reqs)}

(* C7: activatePool completes, by returning or by failing, only when every
   subscription request it issued has succeeded or failed. *)
C7_CompletesAfterAll ==
    \A c \in Activations : Completed(c) => "pending" \notin Statuses(c)

(* C8: an activatePool of which a request failed does not return; one that
   returned had its four requests succeed; and the subscription of every
   request that succeeded stays with the transport, whatever the outcome. *)
C8_JointOutcome ==
    \A c \in Activations :
        /\ "rejected" \in Statuses(c) => ~Returned(calls[c])
        /\ Returned(calls[c]) => Len(calls[c].reqs) = 4 /\ Statuses(c) = {"fulfilled"}
        /\ \A k \in 1..Len(calls[c].reqs) :
                calls[c].reqs[k].status = "fulfilled" =>
                    \E s \in BagToSet(subscriptions) :
                        /\ s.name = calls[c].reqs[k].name
                        /\ s.stream = calls[c].reqs[k].stream

(* an activation that failed on one request while another had succeeded *)
C8_Witness ==
    \E c \in Activations :
        /\ Failed(calls[c])
        /\ {"rejected", "fulfilled"} \subseteq Statuses(c)

(* the subscriptions of a stream *)
Under(streamId) == {s \in BagToSet(subscriptions) : s.stream = streamId}

(* C9: once an activatePool has returned, whatever attempts failed before it,
   the stream holds exactly one subscription for its pool locator and each of
   the four event kinds. *)
C9_RetryNoDuplicates ==
    \A c \in Activations :
        Returned(calls[c]) =>
            ExactlyTheFourKinds(Under(calls[c].streamUsed.id), calls[c].poolLocator)

(* an attempt that failed after creating a subscription, then an attempt with
   the same arguments that returned *)
C9_Witness ==
    \E c1, c2 \in Activations :
        /\ c1 < c2
        /\ calls[c1].poolLocator = calls[c2].poolLocator
        /\ calls[c1].namespace = calls[c2].namespace
        /\ Failed(calls[c1]) /\ "fulfilled" \in Statuses(c1)
        /\ Returned(calls[c2])

Inits == {c \in 1..Len(calls) : calls[c].op = "init"}

StreamsNamed(name) == {i \in 1..Len(streams) : streams[i].name = name}

(* the base pool-creation subscriptions under a stream *)
BaseUnder(streamId) == Held(Under(streamId), BASE_SUBSCRIPTION_NAME, tokenCreateEvent)

(* the base pool-creation subscriptions of the transport *)
AllBase == Held(BagToSet(subscriptions), BASE_SUBSCRIPTION_NAME, tokenCreateEvent)

InitReturned == \E c \in Inits : Returned(calls[c])

(* C10 as stated: once init has returned, however many times, the transport
   has exactly one stream of the current-scheme name and exactly one base
   pool-creation subscription, under that stream. *)
C10_OneCurrentStream ==
    InitReturned =>
        \E i \in 1..Len(streams) :
            /\ StreamsNamed(CurrentStreamName) = {i}
            /\ ExactlyOne(AllBase)
            /\ ExactlyOne(BaseUnder(streams[i].id))

(* the stream init works with: the one of the current-scheme name, else the
   one named by the topic prefix and the instance path *)
InitStream ==
    IF StreamsNamed(CurrentStreamName) # {}
    THEN streams[CHOOSE i \in StreamsNamed(CurrentStreamName) : TRUE]
    ELSE IF StreamsNamed(OldStreamName) # {}
    THEN streams[CHOOSE i \in StreamsNamed(OldStreamName) : TRUE]
    ELSE UndefinedStream

OneStreamOneBase ==
    /\ Cardinality(StreamsNamed(CurrentStreamName)) <= 1
    /\ InitReturned =>
            /\ InitStream # UndefinedStream
            /\ \A c \in Inits : Returned(calls[c]) => calls[c].streamUsed = InitStream
            /\ ExactlyOne(AllBase)
            /\ ExactlyOne(BaseUnder(InitStream.id))

(* a stream is created only when neither stream exists *)
CreatesOnlyWhenNone ==
    streams' # streams =>
        StreamsNamed(CurrentStreamName) = {} /\ StreamsNamed(OldStreamName) = {}

(* once an init has returned, further calls change nothing in the transport *)
SameAsAfterOne == InitReturned => UNCHANGED <<streams, subscriptions>>

(* C10, amended: calling init any number of times leaves exactly one stream
   that init works with, the one of the current-scheme name or, when there
   was none and a stream named by the topic prefix and the instance path
   exists, that stream, no stream of the current-scheme name being created
   then; and exactly one base pool-creation subscription, under that stream:
   the same state as after a single call. *)
C10_InitIdempotent ==
    []OneStreamOneBase /\ [][CreatesOnlyWhenNone /\ SameAsAfterOne]_vars

(* two inits returned, having worked with a stream of the older name *)
C10_Witness ==
    \E c1, c2 \in Inits :
        /\ c1 # c2 /\ Returned(calls[c1]) /\ Returned(calls[c2])
        /\ calls[c2].streamUsed.name = OldStreamName
        /\ ExactlyOne(BaseUnder(calls[c2].streamUsed.id))

(* the streams of an older naming scheme: the topic prefix alone, or the
   topic prefix with the instance path *)
LegacyStreams ==
    {i \in 1..Len(streams) : streams[i].name \in {topicPrefix, OldStreamName}}

LegacyOnly == StreamsNamed(CurrentStreamName) = {} /\ LegacyStreams # {}

(* invocation c comes out of the look-up of migrationCheck in this step *)
PassesLookup(c) ==
    /\ calls[c].pc = "getStreams"
    /\ calls'[c].pc \notin {"getStreams", "failed"}

(* C11: while no stream has the current-scheme name and a stream of an older
   scheme exists, the look-up of migrationCheck caches a stream of an older
   scheme for the topic, and no step of init creates a stream. *)
C11_LegacyStreamUsed ==
    [][LegacyOnly =>
        /\ streams' = streams
        /\ \A c \in 1..Len(calls) :
                PassesLookup(c) =>
                    stream'[Topic(calls[c])] \in {streams[i] : i \in LegacyStreams}]_vars

-----------------------------------------------------------------------------
(* Pool-creation and approval events *)

IsPoolCreation == event.signature \in {tokenCreateEventSignatureOld, tokenCreateEventSignature}
IsApproval == event.signature = approvalForAllEventSignature

(* the pool a pool-creation log entry is about *)
CreatedPool == origin.tokens[1].pool

OnePoolCreated(delivered) ==
    Len(delivered) = 1 /\ delivered[1].event = "token-pool"

(* C12: a pool-creation event yields exactly one pool-created notification
   through the base subscription; through a pool's subscription it yields one
   when the pool of its type id is the pool of the subscription, and nothing
   otherwise. *)
C12_PoolCreationGuard ==
    IsPoolCreation =>
        \A i \in 1..Len(processed) :
            /\ origin.through[i].kind = "base" => OnePoolCreated(processed[i])
            /\ origin.through[i].kind = "pool" =>
                    IF origin.through[i].pool = CreatedPool
                    THEN OnePoolCreated(processed[i])
                    ELSE processed[i] = <<>>

(* one log entry delivered through the base subscription, the subscription of
   its pool and the subscription of another pool *)
C12_Witness ==
    /\ IsPoolCreation
    /\ \E i, j, k \in 1..Len(processed) :
        /\ origin.through[i].kind = "base" /\ OnePoolCreated(processed[i])
        /\ origin.through[j].kind = "pool" /\ origin.through[j].pool = CreatedPool
        /\ OnePoolCreated(processed[j])
        /\ origin.through[k].kind = "pool" /\ origin.through[k].pool # CreatedPool
        /\ processed[k] = <<>>

PoolDeliveries == {i \in 1..Len(processed) : origin.through[i].kind = "pool"}

OneApproval(delivered) ==
    Len(delivered) = 1 /\ delivered[1].event = "token-approval"

(* C13 as stated: an approval log entry delivered through the subscriptions of
   distinct pool locators yields one notification for each, and the ids of
   these notifications are pairwise distinct. *)
C13_DistinctPerLocator ==
    IsApproval =>
        /\ \A i \in PoolDeliveries : OneApproval(processed[i])
        /\ \A i, j \in PoolDeliveries : i # j => processed[i][1].id # processed[j][1].id

(* C13, amended: an approval log entry delivered through the subscriptions of
   distinct pool locators yields one notification for each, its id the base
   identity followed by '/' and the pool id; the ids of two of them are
   distinct when the pool ids of the two locators are, and equal when two
   locators name the same pool. *)
C13_DistinctPerPool ==
    IsApproval =>
        /\ \A i \in PoolDeliveries :
            /\ OneApproval(processed[i])
            /\ processed[i][1].id =
                    processed[i][1].blockchainId \o <<"/">> \o origin.through[i].pool
        /\ \A i, j \in PoolDeliveries :
                (processed[i][1].id = processed[j][1].id)
                    <=> (origin.through[i].pool = origin.through[j].pool)

(* one approval delivered through the subscriptions of two pools and of two
   locators of one pool *)
C13_Witness ==
    /\ IsApproval
    /\ \E i, j, k \in PoolDeliveries :
        /\ origin.through[i].pool # origin.through[j].pool
        /\ processed[i][1].id # processed[j][1].id
        /\ j # k /\ origin.through[j].pool = origin.through[k].pool

(* the invocations that have obtained the stream handle from getStream *)
HoldStream == {c \in 1..Len(calls) : calls[c].streamUsed # UndefinedStream}

(* C16, for the stream handle: the invocations of init and activatePool that
   obtain the stream handle, racing or not, all obtain the same stream, the
   cache holds that stream, and no two streams have the current-scheme
   name. *)
C16_SameStreamForAll ==
    /\ \A c1, c2 \in HoldStream :
            Topic(calls[c1]) = Topic(calls[c2]) => calls[c1].streamUsed = calls[c2].streamUsed
    /\ \A c \in HoldStream : stream[Topic(calls[c])] = calls[c].streamUsed
    /\ Cardinality(StreamsNamed(CurrentStreamName)) <= 1

-----------------------------------------------------------------------------
(* Identities and the order of the chain *)

(* the code unit of a symbol of an identity: '/' comes before the digits *)
CodeUnit(ch) == IF ch = "/" THEN 47 ELSE 48 + DigitVal(ch)

RECURSIVE LexLess(_, _)
(* a < b as strings *)
LexLess(a, b) ==
    IF b = <<>> THEN FALSE
    ELSE IF a = <<>> THEN TRUE
    ELSE IF Head(a) # Head(b) THEN CodeUnit(Head(a)) < CodeUnit(Head(b))
    ELSE LexLess(Tail(a), Tail(b))

(* x < y, for two numbers in limbs *)
Less(x, y) ==
    \/ Len(x) < Len(y)
    \/ /\ Len(x) = Len(y)
       /\ \E k \in 1..Len(x) : x[k] < y[k] /\ \A j \in (k + 1)..Len(x) : x[j] = y[j]

NumberOf(s) == IF s = Undefined THEN Zero ELSE ParseDec(s)

(* block number, transaction index, log index and, for the member of a batch,
   its position (a single transfer counts as before every member) *)
ChainPosition(e) ==
    <<NumberOf(e.blockNumber), NumberOf(e.transactionIndex), NumberOf(e.logIndex),
      IF e.eventIndex = <<>> THEN Zero ELSE OfNat(e.eventIndex[1] + 1)>>

(* a comes before b on the chain *)
ChainBefore(a, b) ==
    \E k \in 1..4 :
        /\ Less(ChainPosition(a)[k], ChainPosition(b)[k])
        /\ \A j \in 1..(k - 1) : ChainPosition(a)[j] = ChainPosition(b)[j]

Formatted == cpc = "formatted"

(* twelve, six and six digits, then six more for the member of a batch *)
WellFormed(ident, e) ==
    LET parts == Split(ident, "/")
        widths == IF e.eventIndex = <<>> THEN <<12, 6, 6>> ELSE <<12, 6, 6, 6>>
    IN  /\ Len(parts) = Len(widths)
        /\ \A k \in 1..Len(parts) : Len(parts[k]) = widths[k] /\ IsNumeral(parts[k])
        /\ ParseDec(parts[1]) = NumberOf(e.blockNumber)
        /\ ParseDec(parts[2]) = NumberOf(e.transactionIndex)
        /\ ParseDec(parts[3]) = NumberOf(e.logIndex)
        /\ e.eventIndex # <<>> => ParseDec(parts[4]) = OfNat(e.eventIndex[1])

(* C17: an identity is the block number in 12 digits, the transaction index
   in 6 and the log index in 6, joined by '/', with the position of the
   member in 6 more digits for a member of a batch; and of two entries, one
   identity is before the other as a string exactly when its entry is before
   the other on the chain. *)
C17_IdentityOrder ==
    Formatted =>
        /\ \A i \in 1..2 : WellFormed(identities[i], entries[i])
        /\ LexLess(identities[1], identities[2]) <=> ChainBefore(entries[1], entries[2])

(* two entries of one transaction whose indexes differ in their number of
   digits, and two members of one batch *)
C17_Witness ==
    /\ Formatted
    /\ entries[1].blockNumber = entries[2].blockNumber
    /\ entries[1].transactionIndex = <<"1", "0">>
    /\ entries[2].transactionIndex = <<"2">>
    /\ entries[1].logIndex = entries[2].logIndex
    /\ entries[1].eventIndex = <<10>> /\ entries[2].eventIndex = <<2>>
    /\ LexLess(identities[2], identities[1])

-----------------------------------------------------------------------------
(* What packTokenId does with an argument out of its range *)

(* what a call that failed would leave in place of a token id *)
InvalidIdentifier == <<"InvalidIdentifier">>

Packed == cpc \in {"packed", "unpacked"}

SequenceGiven == ParseDec(substr1(pool_id))

SequenceInRange == Less(SequenceGiven, Add(AllOnes(127), One))
IndexInRange == Less(ParseDec(IndexGiven), Add(AllOnes(128), One))

(* bit 255 of the id, and its bits 128 to 254 *)
FlagBit == ShiftRight(AsUintN(256, ParseDec(id)), 255)
SequenceBits == ShiftRight(AsUintN(255, ParseDec(id)), 128)

(* C19: packTokenId fails with InvalidIdentifier on a pool sequence of 2^127
   or more or a token index of 2^128 or more, and an id it returns has the
   flag of the tag and the pool sequence that were passed in. *)
C19_RangeChecked ==
    Packed =>
        /\ ~(SequenceInRange /\ IndexInRange) => id = InvalidIdentifier
        /\ (id # InvalidIdentifier /\ pool_id[1] \in Tags) =>
              /\ FlagBit = (IF pool_id[1] = "F" THEN Zero ELSE One)
              /\ SequenceBits = SequenceGiven

(* C20: packTokenId fails with InvalidIdentifier on a pool id whose first
   character is neither F nor N, and so gives it neither a fungible nor a
   non-fungible id. *)
C20_TagChecked ==
    (Packed /\ pool_id[1] \notin Tags) => id = InvalidIdentifier

-----------------------------------------------------------------------------
(* Signatures the listener does not know *)

RecognizedSignatures ==
    {tokenCreateEventSignatureOld, tokenCreateEventSignature, transferSingleEventSignature,
     transferBatchEventSignature, approvalForAllEventSignature}

Unrecognized(k) == Delivered[k].ev.signature \notin RecognizedSignatures

(* what a listener that was never handed an unlisted entry makes of the k-th
   delivery: the single transfer transformed with some state of the cache *)
NormallyProcessed(k) ==
    \E pattern \in {Undefined, UriTemplate}, fails \in 0..1 :
        processed[k] = transformTransferSingleEvent(Delivered[k].sub, Delivered[k].ev, <<>>,
                            pattern, QueryOutcome(0, fails, UriTemplate)).msg

(* the pattern the listener had cached when the k-th delivery was over *)
CachedAfter(k) == IF k = Len(Delivered) THEN uriPattern ELSE Delivered[k + 1].cached

(* C21: an entry whose signature is none of the recognized ones gives no
   notification and leaves the cache as it was, and a recognized entry,
   delivered after it or not, gives what its transformation gives. *)
C21_UnknownDropped ==
    \A k \in 1..Len(Delivered) :
        IF Unrecognized(k)
        THEN /\ processed[k] = <<>>
             /\ CachedAfter(k) = Delivered[k].cached
             /\ k = Len(Delivered) => queries = 0
        ELSE NormallyProcessed(k)

(* an unlisted entry, then a single transfer that is notified *)
C21_Witness ==
    /\ Len(Delivered) = 2
    /\ Unrecognized(1) /\ processed[1] = <<>>
    /\ ~Unrecognized(2) /\ Len(processed[2]) = 1
    /\ processed[2][1].event = "token-mint"

-----------------------------------------------------------------------------
(* The starting blocks of a pool's subscriptions *)

(* the requests activatePool has issued *)
Requested(c) == {calls[c].reqs[k] : k \in 1..Len(calls[c].reqs)}

(* the block number the locator of the call carries, if any *)
LocatorBlock(c) == unpackPoolLocator(calls[c].poolLocator).blockNumber

(* C22: of the requests of an activatePool, the one for the approval event
   starts at block 0 whatever the locator, and those for the pool-creation,
   single-transfer and batch-transfer events start at the locator's block
   number, or at 0 when it has none. *)
C22_StartingBlocks ==
    \A c \in Activations :
        \A r \in Requested(c) :
            IF r.event = approvalForAllEvent
            THEN r.fromBlock = <<"0">>
            ELSE r.fromBlock = (IF LocatorBlock(c) = Undefined THEN <<"0">> ELSE LocatorBlock(c))

(* a pool with a start block is activated *)
C22_Witness ==
    \E c \in Activations :
        /\ LocatorBlock(c) = <<"5">>
        /\ {r.event : r \in Requested(c)} = ExpectedKinds
        /\ \E r \in Requested(c) : r.event = transferBatchEvent /\ r.fromBlock = <<"5">>
        /\ \E r \in Requested(c) : r.event = approvalForAllEvent /\ r.fromBlock = <<"0">>

-----------------------------------------------------------------------------
(* What the core does to the subscriptions of the transport *)

(* the (subscription name, stream id) pairs of a bag of subscriptions *)
Pairs(subs) == {<<s.name, s.stream>> : s \in BagToSet(subs)}

(* C23: no step of init, of its migrationCheck or of activatePool takes a
   (subscription name, stream id) pair away from the transport, or a
   subscription: the pairs only grow. *)
C23_PairsOnlyGrow ==
    [][/\ Pairs(subscriptions) \subseteq Pairs(subscriptions')
       /\ \A s \in BagToSet(subscriptions) :
                CopiesIn(s, subscriptions') >= CopiesIn(s, subscriptions)]_vars

(* an init and an activatePool have both made their subscriptions *)
C23_Witness ==
    /\ Cardinality(Pairs(subscriptions)) = 5
    /\ \E c1 \in Inits, c2 \in Activations : Returned(calls[c1]) /\ Returned(calls[c2])

-----------------------------------------------------------------------------
(* What migrationCheck changes *)

MigrationChecks == {c \in 1..Len(calls) : calls[c].op = "migrationCheck"}

(* C24: no step of migrationCheck changes the streams or the subscriptions of
   the transport, whatever it finds and whether it returns drift, returns no
   drift or fails; of the core's state, only the cached stream handle of the
   topic may change. *)
C24_MigrationFrame ==
    [][/\ streams' = streams
       /\ subscriptions' = subscriptions
       /\ uriPattern' = uriPattern
       /\ \A tp \in Topics :
            stream'[tp] # stream[tp] =>
                \E c \in MigrationChecks : tp = Topic(calls[c]) /\ stream'[tp] \in Range(streams)]_vars

(* a check that found drift among the subscriptions of the stream it cached *)
C24_Witness ==
    \E c \in MigrationChecks :
        /\ Returned(calls[c]) /\ calls[c].drift
        /\ stream[Topic(calls[c])] # UndefinedStream
        /\ \E s \in BagToSet(subscriptions) : unpackSubscriptionName(s.name).poolLocator = Undefined

-----------------------------------------------------------------------------
(* Drift at startup *)

(* C25: drift is reported as a boolean and nothing else: an init fails only
   when a request to the transport failed, never because of what its check
   found; and an init that has returned, with drift or without, has its
   stream on the transport and the base subscription under it. *)
C25_DriftDoesNotBlock ==
    /\ Cardinality({c \in Inits : Failed(calls[c])}) <= failures
    /\ \A c \in Inits :
            /\ calls[c].drift \in BOOLEAN
            /\ Returned(calls[c]) =>
                /\ calls[c].streamUsed \in Range(streams)
                /\ \E s \in BagToSet(subscriptions) :
                        /\ s.stream = calls[c].streamUsed.id
                        /\ s.name = BaseSubscription(Topic(calls[c]))
                        /\ s.event = tokenCreateEvent

(* an init whose check found drift went on to its stream and made the base
   subscription, which was not there before *)
C25_Witness ==
    \E c \in Inits :
        /\ c = 1 /\ Returned(calls[c]) /\ calls[c].drift /\ failures = 0
        /\ CopiesIn([name |-> BaseSubscription(Topic(calls[c])),
                     stream |-> calls[c].streamUsed.id, event |-> tokenCreateEvent,
                     fromBlock |-> Undefined], subscriptions) = 1

-----------------------------------------------------------------------------
(* Nothing to check *)

(* no stream has the current-scheme name or a legacy name *)
NoKnownStream ==
    StreamsNamed(CurrentStreamName) \cup StreamsNamed(OldStreamName) \cup StreamsNamed(topicPrefix) = {}

(* the subscriptions of the stream the check settled on, the base
   subscription aside *)
PoolSubscriptionsOf(c) ==
    {s \in Under(stream[Topic(calls[c])].id) : s.name # BaseSubscription(Topic(calls[c]))}

(* C26: a migrationCheck that has returned found no drift when the transport
   has no stream of the current or of a legacy name, and when the stream it
   settled on has no subscription other than the base subscription. *)
C26_NothingToCheck ==
    \A c \in MigrationChecks :
        Returned(calls[c]) =>
            /\ NoKnownStream => ~calls[c].drift
            /\ (stream[Topic(calls[c])] # UndefinedStream /\ PoolSubscriptionsOf(c) = {})
                    => ~calls[c].drift

(* the stream holds the base subscription alone, and another stream holds a
   pool's *)
C26_Witness ==
    \E c \in MigrationChecks :
        /\ Returned(calls[c]) /\ ~calls[c].drift
        /\ stream[Topic(calls[c])] # UndefinedStream
        /\ PoolSubscriptionsOf(c) = {}
        /\ Under(stream[Topic(calls[c])].id) # {}
        /\ BagToSet(subscriptions) # Under(stream[Topic(calls[c])].id)

-----------------------------------------------------------------------------
(* The outbound operations *)

HasResponded == cpc = "responded"

(* the pool id of a locator: what comes before its delimiter *)
RECURSIVE PoolIdPart(_)
PoolIdPart(locator) ==
    IF locator = <<>> \/ Head(locator) = LocatorDelim THEN <<>>
    ELSE <<Head(locator)>> \o PoolIdPart(Tail(locator))

(* the id the chain client gave the request is returned, unless it failed *)
ReturnsRequestId ==
    IF invoked[1].response.ok THEN reply = [id |-> invoked[1].response.id]
    ELSE reply = InternalServerError

(* C27: a mint makes one chain invocation and returns its request id: for a
   fungible pool, mintFungible with type id packTokenId(poolId), the one
   recipient and the one amount; for a non-fungible pool, mintNonFungible
   with type id packTokenId(poolId) and the recipient repeated amount times. *)
C27_MintInvocation ==
    (HasResponded /\ dto.op = "mint") =>
        /\ Len(invoked) = 1
        /\ invoked[1].method = "POST"
        /\ ReturnsRequestId
        /\ invoked[1].body.type_id = packTokenId(PoolIdPart(dto.poolLocator), Undefined)
        /\ IF PoolIdPart(dto.poolLocator)[1] = "F"
           THEN /\ invoked[1].path = "/mintFungible"
                /\ invoked[1].body.to = <<dto.to>>
                /\ invoked[1].body.amounts = <<dto.amount>>
           ELSE /\ invoked[1].path = "/mintNonFungible"
                /\ OfNat(Len(invoked[1].body.to)) = ParseDec(dto.amount)
                /\ \A i \in 1..Len(invoked[1].body.to) : invoked[1].body.to[i] = dto.to

(* three tokens of a non-fungible pool whose locator carries a start block *)
C27_Witness ==
    /\ HasResponded /\ dto.op = "mint"
    /\ dto.poolLocator = packPoolLocator(<<"N", "1">>, <<"5">>)
    /\ dto.amount = <<"0", "3">>
    /\ invoked[1].body.to = <<dto.to, dto.to, dto.to>>
    /\ reply = [id |-> "2"]

(* C28: transfer, burn and balance each make one chain call for the token id
   packTokenId(poolId, tokenIndex), poolId being the pool-id part of the
   locator whatever its suffix, with from, to, account and amount as they
   were requested. *)
C28_TokenAddressed ==
    (HasResponded /\ dto.op \in {"transfer", "burn", "balance"}) =>
        LET tokenId == packTokenId(PoolIdPart(dto.poolLocator), dto.tokenIndex)
        IN  /\ Len(invoked) = 1
            /\ dto.op = "transfer" =>
                    /\ invoked[1].path = "/safeTransferFrom"
                    /\ invoked[1].body.id = tokenId
                    /\ invoked[1].body.from = dto.from /\ invoked[1].body.to = dto.to
                    /\ invoked[1].body.amount = dto.amount
            /\ dto.op = "burn" =>
                    /\ invoked[1].path = "/burn"
                    /\ invoked[1].body.id = tokenId
                    /\ invoked[1].body.from = dto.from
                    /\ invoked[1].body.amount = dto.amount
            /\ dto.op = "balance" =>
                    /\ invoked[1].path = "/balanceOf"
                    /\ invoked[1].params.id = tokenId
                    /\ invoked[1].params.account = dto.account

(* a token of a pool whose locator carries a start block is transferred: the
   id is the one of the pool without the suffix *)
C28_Witness ==
    /\ HasResponded /\ dto.op = "transfer"
    /\ dto.poolLocator = packPoolLocator(<<"N", "1">>, <<"5">>)
    /\ dto.tokenIndex = <<"2">>
    /\ invoked[1].body.id = packTokenId(<<"N", "1">>, <<"2">>)


-----------------------------------------------------------------------------
(* The token contract: who may mint *)

MintFunctions == {"mintFungible", "mintNonFungible", "mintNonFungibleWithURI"}

(* the pool a token id belongs to: the id with its index bits cleared *)
PoolOf(w) == Word(w.nf, w.type, 0)

CreatorOf(type_id) == At(creators, type_id, ZeroAddress)

(* the last transaction was a mint sent by another account than the creator
   of the pool it names *)
MintByOther(call) == call.fn \in MintFunctions /\ call.sender # CreatorOf(call.type_id)

(* C29: after any sequence of create, mintFungible, mintNonFungible and
   mintNonFungibleWithURI calls by any senders, every token minted into a
   pool was minted by a call of the account that created the pool, and a
   mint call of any other sender reverts and leaves balances and maxIndex
   as they were. *)
C29_CreatorOnlyMints ==
    /\ [](/\ \A e \in BagToSet(emitted) : e.operator = CreatorOf(PoolOf(e.id))
          /\ MintByOther(tx) => tx.reverted)
    /\ [][MintByOther(tx') => UNCHANGED <<balances, maxIndex>>]_vars

(* a pool of one account holds tokens, and the mint another account, itself
   the creator of a pool, sent for it has reverted *)
C29_Witness ==
    /\ MintByOther(tx)
    /\ tx.reverted
    /\ tx.type_id \in DOMAIN creators
    /\ \E other \in DOMAIN creators : creators[other] = tx.sender
    /\ \E e \in BagToSet(emitted) : PoolOf(e.id) = tx.type_id

-----------------------------------------------------------------------------
(* The token contract: the indexes of non-fungible tokens *)

(* the TransferSingle events of the mints of one token id *)
MintsOf(token) == {e \in BagToSet(emitted) : e.id = token}

RECURSIVE Copies(_)
Copies(events) ==
    IF events = {} THEN 0
    ELSE LET e == CHOOSE x \in events : TRUE
         IN  CopiesIn(e, emitted) + Copies(events \ {e})

RECURSIVE BalanceSum(_)
BalanceSum(keys) ==
    IF keys = {} THEN 0
    ELSE LET k == CHOOSE x \in keys : TRUE
         IN  balances[k] + BalanceSum(keys \ {k})

(* the total supply of a token id: what all accounts hold of it *)
TotalSupply(token) == BalanceSum({k \in DOMAIN balances : k[1] = token})

MintedIds(type_id) == {e.id : e \in {x \in BagToSet(emitted) : PoolOf(x.id) = type_id}}

(* C30: non-fungible token indexes are 1-based and unique: after any sequence
   of mintNonFungible and mintNonFungibleWithURI calls on a non-fungible
   pool, the minted token ids are exactly type_id | k for k in
   1..maxIndex[type_id], each minted exactly once with amount 1, so that no
   token id of the pool has a total supply greater than 1. *)
C30_UniqueIndexes ==
    \A type_id \in DOMAIN creators :
        isNonFungible(type_id) =>
            /\ MintedIds(type_id) =
                   {WordOr(type_id, Uint(k)) : k \in 1..At(maxIndex, type_id, 0)}
            /\ \A token \in MintedIds(type_id) :
                   /\ Copies(MintsOf(token)) = 1
                   /\ \A e \in MintsOf(token) : e.value = 1
                   /\ TotalSupply(token) <= 1


-----------------------------------------------------------------------------
(* The token contract: custom URIs *)

(* C31: uri(id) is the default base URI for every token id for which the
   creator of the token's own non-fungible pool has not set a custom URI:
   whatever calls any account makes to _setNonFungibleURI or
   mintNonFungibleWithURI, the URI of a token changes only in a call sent by
   the creator of the non-fungible pool the token belongs to, so that
   fungible tokens and the tokens of pools of other accounts keep the
   default. *)
C31_OwnPoolUriOnly ==
    [][\A token \in DOMAIN nfTokenURIs \cup DOMAIN nfTokenURIs' :
          uriOf(token)' # uriOf(token) =>
              /\ isNonFungible(PoolOf(token))
              /\ tx'.sender = CreatorOf(PoolOf(token))]_vars


-----------------------------------------------------------------------------
(* The token contract: the type ids create returns *)

(* the decimal numeral of a word, as the chain reports it *)
NumeralOf(w) ==
    ToDec(Or(Or(ShiftLeft(IF w.nf THEN One ELSE Zero, 255),
                ShiftLeft(OfNat(w.type), 128)),
             OfNat(w.index)))

(* C32: every create call returns a type id that no earlier create call
   returned, whose 128 token-index bits are zero and whose bit 255 is set
   exactly when is_fungible is false, and stores the caller as the creator
   of the pool; unpackTokenId makes of the type id a pool id whose tag, F or
   N, is the fungibility requested, and token index 0. *)
C32_FreshTypeIds ==
    /\ Cardinality(DOMAIN creators) = nonce
    /\ \A type_id \in DOMAIN creators : type_id.index = 0
    /\ tx.fn = "create" =>
           /\ ~tx.reverted
           /\ tx.type_id.index = 0
           /\ tx.type_id.nf = ~tx.is_fungible
           /\ CreatorOf(tx.type_id) = tx.sender
           /\ LET u == unpackTokenId(NumeralOf(tx.type_id))
              IN  /\ u.isFungible = tx.is_fungible
                  /\ u.poolId = <<IF tx.is_fungible THEN "F" ELSE "N">> \o NatToString(nonce)
                  /\ u.tokenIndex = <<"0">>

(* a second pool has been created, by another account and of the other kind
   than the first *)
C32_Witness ==
    /\ tx.fn = "create"
    /\ nonce = 2
    /\ \E p, q \in DOMAIN creators : p.nf /\ ~q.nf /\ creators[p] # creators[q]


-----------------------------------------------------------------------------
(* unpackTokenId on any 256-bit value *)

(* C33: unpackTokenId is total on 256-bit values: for every decimal numeral
   below 2^256, made by packTokenId or not, it returns isFungible true
   exactly when bit 255 is 0, a poolId of the tag F or N followed by the
   value of bits 254..128, and as tokenIndex the value of bits 127..0. *)
C33_UnpackTotal ==
    cpc = "unpacked" =>
        /\ unpacked.isFungible = (pool_id[1] = "F")
        /\ unpacked.poolId = pool_id
        /\ unpacked.tokenIndex = token_index

(* the numeral of 2^256 - 1, written with leading zeros, has been unpacked *)
C33_Witness ==
    /\ cpc = "unpacked"
    /\ id = <<"0", "0">> \o ToDec(AllOnes(256))
    /\ unpacked.poolId = <<"N">> \o ToDec(AllOnes(127))
    /\ unpacked.tokenIndex = ToDec(AllOnes(128))


-----------------------------------------------------------------------------
(* The subscription-name codec *)

HasDelimiter(s) == s # Undefined /\ \E k \in 1..Len(s) : s[k] = NameDelim

PartsOf(s) == Len(Split(s, NameDelim))

(* C34: for every tuple of scope, pool locator or the sentinel base, event
   name and optional pool data whose fields do not contain the delimiter,
   unpackSubscriptionName(packSubscriptionName(tuple)) returns the fields
   given, also when the event name is the empty string that the migration
   check packs its grouping key with. *)
C34_NameRoundTrip ==
    (/\ cpc = "parsed"
     /\ nameFields # NoFields
     /\ ~HasDelimiter(nameFields.scope) /\ ~HasDelimiter(nameFields.poolLocator)
     /\ ~HasDelimiter(nameFields.event) /\ ~HasDelimiter(nameFields.poolData))
        => unpackedName = nameFields

(* a grouping key, with empty event name and with pool data, was packed and
   unpacked *)
C34_Witness ==
    /\ cpc = "parsed"
    /\ nameFields.event = <<>>
    /\ nameFields.poolLocator = packPoolLocator(<<"N", "1">>, <<"5">>)
    /\ nameFields.poolData = <<"d", "1">>
    /\ PartsOf(packedName) = 4
    /\ unpackedName.event = <<>>

(* C35: for every string that the current packing scheme did not produce,
   its number of delimiter-separated parts being neither three nor four,
   names of earlier schemes included, unpackSubscriptionName returns a
   result with poolLocator and event both absent, and never throws. *)
C35_UnparseableAbsent ==
    (cpc = "parsed" /\ PartsOf(packedName) \notin {3, 4})
        => /\ unpackedName.poolLocator = Undefined
           /\ unpackedName.event = Undefined

(* a name of five parts was unpacked *)
C35_Witness ==
    /\ cpc = "parsed"
    /\ nameFields = NoFields
    /\ PartsOf(packedName) = 5
    /\ unpackedName = NoFields


-----------------------------------------------------------------------------
(* The later TokensService: its own subscriptions and the migration check *)

(* C36: the subscriptions the core itself creates never count as drift:
   after init and any sequence of successful activatePool calls for distinct
   pool locators, with no other writer on the stream, migrationCheck returns
   no drift; the base subscription init created is the one migrationCheck
   leaves out, and every activated pool has the four expected event kinds. *)
C36_OwnSubscriptionsNoDrift ==
    \A k \in 1..Len(calls) :
        (calls[k].op = "migrationCheck" /\ calls[k].pc = "returned")
            => calls[k].result = Boolean(FALSE)


-----------------------------------------------------------------------------
(* The members of a batch and the notifications made of them *)

(* the members of the batch delivered that pass the early returns of
   transformTransferSingleEvent, told from what the subscription name and
   the token ids were made of *)
AcceptedMembers ==
    {i \in 1..Len(origin.tokens) :
        /\ origin.sub.kind = "pool"
        /\ origin.sub.pool = origin.tokens[i].pool
        /\ ~(event.data.from = ZERO_ADDRESS /\ event.data.to = ZERO_ADDRESS)}

(* the place of the accepted member i among the accepted members *)
RankOf(i) == Cardinality({j \in AcceptedMembers : j <= i})

(* C37: in batch expansion the sub-index of each notification is the
   member's position in the id array of the event, counted from 0, not its
   position among the notifications: a member the pool test rejects is
   dropped without shifting the sub-index of later members, and the
   notifications are handed to the channel in ascending sub-index order. *)
C37_SubIndexIsPosition ==
    (event.signature = transferBatchEventSignature) =>
        /\ Len(Notifications) = Cardinality(AcceptedMembers)
        /\ \A i \in AcceptedMembers :
              /\ SubIndexOf(Notifications[RankOf(i)]) = PadStart(NatToString(i - 1), 6, "0")
              /\ Notifications[RankOf(i)].data.tokenIndex = origin.tokens[i].index
              /\ Notifications[RankOf(i)].data.amount = event.data.values[i]
        /\ \A k \in 1..Len(processed) : Len(processed[k]) = 1

(* a batch whose first member is rejected and whose second is emitted *)
C37_Witness ==
    /\ event.signature = transferBatchEventSignature
    /\ Len(event.data.ids) = 2
    /\ AcceptedMembers = {2}
    /\ Len(Notifications) = 1
    /\ SubIndexOf(Notifications[1]) = <<"0", "0", "0", "0", "0", "1">>


-----------------------------------------------------------------------------
(* Deliveries under names that do not unpack *)

(* C38: an entry of any listed signature delivered under a subscription name
   that does not unpack gives no notification and no error: nothing is handed
   to the channel, no URI is queried and the cache is left as it was; the
   entries delivered after it are handled, one of the pool of its own
   subscription giving its notification. *)
C38_StrayNameIgnored ==
    /\ Len(processed) = Len(Delivered)
    /\ \A k \in 1..Len(Delivered) :
          /\ Delivered[k].kind = "stray" =>
                /\ processed[k] = <<>>
                /\ Delivered[k].ev.signature \in ListedSignatures
                /\ IF k < Len(Delivered) THEN Delivered[k + 1].cached = Delivered[k].cached
                   ELSE uriPattern = Delivered[k].cached /\ queries = 0
          /\ Delivered[k].kind = "pool" => Len(processed[k]) = 1

(* a notification made after an approval delivered under the empty name *)
C38_Witness ==
    /\ Len(Delivered) = 2
    /\ Delivered[1].kind = "stray"
    /\ Delivered[1].ev.signature = approvalForAllEventSignature
    /\ Delivered[1].sub = <<>>
    /\ Delivered[2].kind = "pool"
    /\ Len(processed[2]) = 1


-----------------------------------------------------------------------------
(* createPool with an address in its config *)

WithAddress(call) ==
    call.op = "createPool" /\ call.address # Undefined /\ call.address # <<>>

SubscribedTo(subs, call) ==
    \E s \in BagToSet(subs) :
        /\ s.name = CreatePoolSubscriptionName(call.address)
        /\ s.event = tokenCreateEvent
        /\ s.stream = stream[LaterTopic].id

(* C39: when createPool is called with an address in its config, the
   subscription to the pool creations of that address is there before the
   create transaction is sent: the transaction is sent only by a call whose
   subscription request was served, to that address, and a call whose
   subscription request failed sends no transaction. *)
C39_SubscribedBeforeCreate ==
    /\ [](\A k \in 1..Len(calls) :
            WithAddress(calls[k]) =>
                /\ calls[k].pc = "failed" => calls[k].sent = <<>>
                /\ calls[k].sent # <<>> =>
                      /\ SubscribedTo(subscriptions, calls[k])
                      /\ calls[k].sent = <<[to |-> calls[k].address, method |-> "create"]>>)
    /\ [][(/\ calls # <<>> /\ Len(calls') = Len(calls)
           /\ WithAddress(Current)
           /\ Current.sent = <<>> /\ calls'[Len(calls)].sent # <<>>)
              => /\ Current.pc = "sendTransaction"
                 /\ SubscribedTo(subscriptions, Current)]_vars

(* a createPool with an address and a start block that has sent its
   transaction, and one before it that failed *)
C39_Witness ==
    /\ Len(calls) >= 3
    /\ WithAddress(calls[2]) /\ calls[2].pc = "failed"
    /\ WithAddress(Current) /\ Current.pc = "returned" /\ Current.sent # <<>>
    /\ Current.blockNumber = <<"5">>
    /\ SubscribedTo(subscriptions, Current)

=============================================================================
